---- MODULE Spec2Model ----
(***************************************************************************)
(* Verification model of the noon.com product extraction and enrichment    *)
(* engine: NoonParser (listing pages), NoonDetailParser (detail pages),    *)
(* the Product model, and the agents built on them: CategoryScraper,       *)
(* GapAnalyzer and Orchestrator.                                           *)
(*                                                                         *)
(* Representation.  A Python value is a tagged record (Null, Bool, Num,    *)
(* Str, Obj, List).  A str is a sequence of one-character strings, so      *)
(* that len, strip, lower, startswith, "in" and the regular expressions    *)
(* are computed character by character.  A number is a fixed-point value   *)
(* in hundredths (Num(4599) is 45.99); it is a Python int when it has no   *)
(* fractional part.  A dict is a sequence of key/value pairs in document   *)
(* order (keys are TLA+ strings and unique within one dict).               *)
(***************************************************************************)
EXTENDS Integers, Sequences, FiniteSets, TLC

VARIABLES
    dd_products,    \* _remove_duplicates: the argument
    dd_result,      \* _remove_duplicates: the returned list
    dd_pc,          \* "idle", "call" (called, not yet run), "done" (returned)
    ls_doc,         \* parse_search_results: the document
    ls_products,    \* parse_search_results: the local list products
    ls_result,      \* parse_search_results: the returned list
    ls_pc,          \* "idle", "json", "html", "dedup", "done"
    ls_now,         \* parse_search_results: the time of the call, by datetime.now()
    dt_doc,         \* parse_product_detail: the document
    dt_heap,        \* the Product objects that exist
    dt_existing,    \* parse_product_detail: the argument existing_product
    dt_before,      \* the fields of existing_product when the call was made
    dt_now,         \* what datetime.now() returns during the call
    dt_json,        \* parse_product_detail: what _extract_from_json returned
    dt_html,        \* parse_product_detail: what _extract_from_html returned
    dt_data,        \* parse_product_detail: the local dict product_data
    dt_result,      \* parse_product_detail: the outcome of the call
    dt_pc,          \* "idle", "json", "html", "finish", "done"
    fn_name,        \* a field method called on its own: its name
    fn_arg,         \* its argument
    fn_ret,         \* what it returned
    fn_pc,          \* "idle", "call" (called, not yet run), "done" (returned)
    rr_first,       \* the outcome of the first of two calls on one input, NoRun before
    or_self,        \* the Orchestrator: its settings, scraped_results, opportunities, stats
    or_config,      \* run_full_analysis: subcategories, skip_threshold, max_products
    or_i,           \* run_full_analysis: the position of the loop in subcategories
    or_scrape,      \* run_full_analysis: what scrape_category did for the category at hand
    or_last,        \* what the last iteration of the loop did, NoCategory before the first
    or_log,         \* the full_path of every category the loop of this run has taken up
    or_result,      \* run_full_analysis: the returned dict
    or_runs,        \* the runs this Orchestrator has completed
    or_pc           \* "idle", "loop", "scraped", "done"

dedupVars == <<dd_products, dd_result, dd_pc>>
listingVars == <<ls_doc, ls_products, ls_result, ls_pc, ls_now>>
detailVars == <<dt_doc, dt_heap, dt_existing, dt_before, dt_now, dt_json, dt_html, dt_data,
                dt_result, dt_pc>>
fieldVars == <<fn_name, fn_arg, fn_ret, fn_pc>>
rerunVars == <<rr_first>>
orchVars == <<or_self, or_config, or_i, or_scrape, or_last, or_log, or_result, or_runs, or_pc>>
vars == <<dedupVars, listingVars, detailVars, fieldVars, rerunVars, orchVars>>

\* ------------------------------------------------------------------ values

Scale == 100

Null == [t |-> "null"]
Bool(b) == [t |-> "bool", b |-> b]
Num(n) == [t |-> "num", n |-> n]
Str(s) == [t |-> "str", s |-> s]
Obj(kv) == [t |-> "obj", kv |-> kv]
List(items) == [t |-> "list", items |-> items]
KV(k, v) == [k |-> k, v |-> v]

IsNull(v) == v.t = "null"
IsStr(v) == v.t = "str"
\* isinstance(v, (int, float)): True also for a bool, which is an int in Python
IsNumber(v) == v.t = "num" \/ v.t = "bool"
IsInt(v) == (v.t = "num" /\ v.n % Scale = 0) \/ v.t = "bool"
NumberOf(v) == IF v.t = "bool" THEN (IF v.b THEN Scale ELSE 0) ELSE v.n

\* Python truthiness
Truthy(v) ==
    CASE v.t = "null" -> FALSE
      [] v.t = "bool" -> v.b
      [] v.t = "num" -> v.n # 0
      [] v.t = "str" -> Len(v.s) > 0
      [] v.t = "obj" -> Len(v.kv) > 0
      [] v.t = "list" -> Len(v.items) > 0

\* a or b or ... : the first truthy operand, else the last operand
RECURSIVE OrChain(_)
OrChain(vs) ==
    IF Len(vs) = 1 \/ Truthy(Head(vs)) THEN Head(vs) ELSE OrChain(Tail(vs))

\* key in data
HasKey(data, key) == \E i \in 1..Len(data.kv) : data.kv[i].k = key

\* data.get(key)
Get(data, key) ==
    IF HasKey(data, key)
    THEN data.kv[CHOOSE i \in 1..Len(data.kv) : data.kv[i].k = key].v
    ELSE Null

\* data.get(key, default)
GetOr(data, key, default) == IF HasKey(data, key) THEN Get(data, key) ELSE default

\* data.get(k1) or data.get(k2) or ...
GetFirst(data, keys) == OrChain([i \in 1..Len(keys) |-> Get(data, keys[i])])

\* ------------------------------------------------------------------ text

Digits == <<"0", "1", "2", "3", "4", "5", "6", "7", "8", "9">>
UpperCase == <<"A", "B", "C", "D", "E", "F", "G", "H", "I", "J", "K", "L", "M",
               "N", "O", "P", "Q", "R", "S", "T", "U", "V", "W", "X", "Y", "Z">>
LowerCase == <<"a", "b", "c", "d", "e", "f", "g", "h", "i", "j", "k", "l", "m",
               "n", "o", "p", "q", "r", "s", "t", "u", "v", "w", "x", "y", "z">>

IsDigit(c) == \E d \in 1..Len(Digits) : Digits[d] = c
DigitVal(c) == (CHOOSE d \in 1..Len(Digits) : Digits[d] = c) - 1
IsSpace(c) == c = " "

LowerChar(c) ==
    IF \E u \in 1..Len(UpperCase) : UpperCase[u] = c
    THEN LowerCase[CHOOSE u \in 1..Len(UpperCase) : UpperCase[u] = c]
    ELSE c

\* s.lower()
Lower(s) == [i \in 1..Len(s) |-> LowerChar(s[i])]

\* s.startswith(p)
StartsWith(s, p) == Len(p) <= Len(s) /\ SubSeq(s, 1, Len(p)) = p

\* p occurs in s at index i
OccursAt(s, p, i) == i + Len(p) - 1 <= Len(s) /\ SubSeq(s, i, i + Len(p) - 1) = p

\* p in s
Contains(s, p) == \E i \in 1..(Len(s) + 1) : OccursAt(s, p, i)

\* s.strip()
Strip(s) ==
    IF \A i \in 1..Len(s) : IsSpace(s[i]) THEN <<>>
    ELSE LET a == CHOOSE i \in 1..Len(s) :
                      ~IsSpace(s[i]) /\ \A k \in 1..(i - 1) : IsSpace(s[k])
             b == CHOOSE i \in 1..Len(s) :
                      ~IsSpace(s[i]) /\ \A k \in (i + 1)..Len(s) : IsSpace(s[k])
         IN SubSeq(s, a, b)

\* s.replace(old, new) for one-character old and new
ReplaceChar(s, old, new) == [i \in 1..Len(s) |-> IF s[i] = old THEN new ELSE s[i]]

\* the last index of the run of digits that starts at i (s[i] is a digit)
DigitRunEnd(s, i) ==
    CHOOSE j \in i..Len(s) :
        /\ \A k \in i..j : IsDigit(s[k])
        /\ (j = Len(s) \/ ~IsDigit(s[j + 1]))

\* int(s[i..j]) for a run of digits
RECURSIVE ParseNat(_, _, _)
ParseNat(s, i, j) ==
    IF j < i THEN 0 ELSE ParseNat(s, i, j - 1) * 10 + DigitVal(s[j])

MinOf(S) == CHOOSE x \in S : \A y \in S : x <= y

\* ------------------------------------------------------------------ NoonParser: price

PRICE_MIN == 1
PRICE_MAX == 10000

\* re.search(r'(\d+<sep>\d+)', t): the leftmost match as [i, j, k] (integer part
\* t[i..j], separator at j+1, fraction t[j+2..k]), or <<>> when there is none
DecimalMatchAt(t, sep, i) ==
    /\ IsDigit(t[i])
    /\ LET j == DigitRunEnd(t, i)
       IN j + 2 <= Len(t) /\ t[j + 1] = sep /\ IsDigit(t[j + 2])

SearchDecimal(t, sep) ==
    LET hits == {i \in 1..Len(t) : DecimalMatchAt(t, sep, i)}
    IN IF hits = {} THEN <<>>
       ELSE LET i == MinOf(hits)
                j == DigitRunEnd(t, i)
            IN <<i, j, DigitRunEnd(t, j + 2)>>

\* re.search(r'(\d+)', t): the leftmost run of digits as <<i, j>>, or <<>>
SearchDigits(t) ==
    LET hits == {i \in 1..Len(t) : IsDigit(t[i])}
    IN IF hits = {} THEN <<>>
       ELSE <<MinOf(hits), DigitRunEnd(t, MinOf(hits))>>

\* float(group) as [int |-> integer part, frac |-> the digits after the point]
FloatOfDecimal(t, m) == [int |-> ParseNat(t, m[1], m[2]), frac |-> SubSeq(t, m[2] + 2, m[3])]
FloatOfDigits(t, m) == [int |-> ParseNat(t, m[1], m[2]), frac |-> <<>>]

\* the float in hundredths (digits beyond the second are dropped by the
\* fixed-point representation; the range test below is exact)
Hundredths(f) ==
    f.int * Scale
    + (IF Len(f.frac) >= 1 THEN DigitVal(f.frac[1]) * 10 ELSE 0)
    + (IF Len(f.frac) >= 2 THEN DigitVal(f.frac[2]) ELSE 0)

\* 1 <= price <= 10000
PriceInRange(f) ==
    /\ f.int >= PRICE_MIN
    /\ \/ f.int < PRICE_MAX
       \/ f.int = PRICE_MAX /\ \A d \in 1..Len(f.frac) : f.frac[d] = "0"

\* NoonParser._parse_price(text): Num(price) or Null
_parse_price(text) ==
    IF Len(text) = 0 THEN Null
    ELSE LET t == ReplaceChar(text, ",", ".")
             m1 == SearchDecimal(t, ".")
             m2 == SearchDecimal(t, ",")
             m3 == SearchDigits(t)
         IN CASE m1 # <<>> /\ PriceInRange(FloatOfDecimal(t, m1)) ->
                     Num(Hundredths(FloatOfDecimal(t, m1)))
              [] OTHER ->
                 CASE m2 # <<>> /\ PriceInRange(FloatOfDecimal(t, m2)) ->
                          Num(Hundredths(FloatOfDecimal(t, m2)))
                   [] OTHER ->
                      IF m3 # <<>> /\ PriceInRange(FloatOfDigits(t, m3))
                      THEN Num(Hundredths(FloatOfDigits(t, m3)))
                      ELSE Null

\* ------------------------------------------------------------------ Product

Invalid == [t |-> "invalid"]

\* the time at which the Product class body was evaluated (module import)
ImportTime == 0

StrFields == {"title", "currency", "category", "sku", "bsr_category", "availability",
              "author", "format", "publication_date", "language"}
FloatFields == {"price", "average_rating", "discount_percentage"}
IntFields == {"review_count", "bsr"}
UrlFields == {"product_url", "image_url"}
TimeFields == {"scraped_at"}
FieldNames == StrFields \cup FloatFields \cup IntFields \cup UrlFields \cup TimeFields
RequiredFields == {"title", "price", "product_url"}

\* the declared default of a field that has one
FieldDefault(f) ==
    CASE f = "currency" -> Str(<<"A", "E", "D">>)
      [] f = "scraped_at" -> Num(ImportTime)
      [] OTHER -> Null

\* a str that float() / int() parses: digits, optionally a point and digits
IsDecimalStr(s) ==
    /\ Len(s) > 0
    /\ IsDigit(s[1])
    /\ LET j == DigitRunEnd(s, 1)
       IN \/ j = Len(s)
          \/ /\ j + 2 <= Len(s)
             /\ s[j + 1] = "."
             /\ IsDigit(s[j + 2])
             /\ DigitRunEnd(s, j + 2) = Len(s)
IsDigitStr(s) == Len(s) > 0 /\ \A i \in 1..Len(s) : IsDigit(s[i])

DecimalStrValue(s) ==
    LET j == DigitRunEnd(s, 1)
    IN Hundredths([int |-> ParseNat(s, 1, j),
                   frac |-> IF j = Len(s) THEN <<>> ELSE SubSeq(s, j + 2, Len(s))])

HttpPrefix == <<"h", "t", "t", "p", ":", "/", "/">>
HttpsPrefix == <<"h", "t", "t", "p", "s", ":", "/", "/">>

\* HttpUrl: scheme http or https followed by a host
IsHttpUrl(s) ==
    \/ StartsWith(s, HttpPrefix) /\ Len(s) > Len(HttpPrefix)
    \/ StartsWith(s, HttpsPrefix) /\ Len(s) > Len(HttpsPrefix)

\* validation and lax-mode coercion of one field value
CoerceField(f, v) ==
    CASE IsNull(v) -> IF f \in RequiredFields \/ f \in {"currency", "scraped_at"}
                      THEN Invalid ELSE Null
      [] f \in StrFields -> IF IsStr(v) THEN v ELSE Invalid
      [] f \in FloatFields ->
            CASE IsNumber(v) -> Num(NumberOf(v))
              [] IsStr(v) /\ IsDecimalStr(Strip(v.s)) -> Num(DecimalStrValue(Strip(v.s)))
              [] OTHER -> Invalid
      [] f \in IntFields ->
            CASE IsInt(v) -> Num(NumberOf(v))
              [] IsStr(v) /\ IsDigitStr(Strip(v.s)) -> Num(ParseNat(Strip(v.s), 1, Len(Strip(v.s))) * Scale)
              [] OTHER -> Invalid
      [] f \in UrlFields -> IF IsStr(v) /\ IsHttpUrl(v.s) THEN v ELSE Invalid
      [] f \in TimeFields -> IF v.t = "num" THEN v ELSE Invalid

\* Product(**data): the validated Product, or Invalid when pydantic raises
\* ValidationError (keys that are no field are ignored)
Product(data) ==
    LET fields == [f \in FieldNames |->
                      IF f \in DOMAIN data THEN CoerceField(f, data[f])
                      ELSE IF f \in RequiredFields THEN Invalid
                      ELSE FieldDefault(f)]
    IN IF \E f \in FieldNames : fields[f] = Invalid THEN Invalid ELSE fields

\* product.model_dump()
model_dump(product) == product

\* ------------------------------------------------------------------ NoonParser: url, dedup

SiteOrigin == <<"h", "t", "t", "p", "s", ":", "/", "/", "w", "w", "w", ".",
                "n", "o", "o", "n", ".", "c", "o", "m">>

\* NoonParser._normalize_url(url)
_normalize_url(url) ==
    IF StartsWith(url, <<"h", "t", "t", "p">>) THEN url
    ELSE IF StartsWith(url, <<"/">>) THEN SiteOrigin \o url
    ELSE SiteOrigin \o <<"/">> \o url

\* NoonParser._remove_duplicates(products); KeepLastOfEachUrl is the variant
\* that keeps the last Product of each URL instead of the first
RECURSIVE RemoveDuplicatesFrom(_, _, _)
RemoveDuplicatesFrom(products, seen_urls, unique_products) ==
    IF products = <<>> THEN unique_products
    ELSE LET product == Head(products)
             url_str == product.product_url.s
         IN IF url_str \notin seen_urls
            THEN RemoveDuplicatesFrom(Tail(products), seen_urls \cup {url_str},
                                      Append(unique_products, product))
            ELSE RemoveDuplicatesFrom(Tail(products), seen_urls, unique_products)

RECURSIVE KeepLastOfEachUrl(_)
KeepLastOfEachUrl(products) ==
    IF products = <<>> THEN <<>>
    ELSE IF \E k \in 2..Len(products) : products[k].product_url.s = Head(products).product_url.s
         THEN KeepLastOfEachUrl(Tail(products))
         ELSE <<Head(products)>> \o KeepLastOfEachUrl(Tail(products))

\* the variant whose seen_urls lives on from the parser's previous call
RemoveDuplicatesSeenBefore(products) ==
    RemoveDuplicatesFrom(products,
                         IF rr_first.kind = "listing"
                         THEN {rr_first.products[i].product_url.s : i \in 1..Len(rr_first.products)}
                         ELSE {},
                         <<>>)

_remove_duplicates(products) == RemoveDuplicatesFrom(products, {}, <<>>)

\* ------------------------------------------------------------------ NoonParser: JSON

\* the outcome of an expression that raises an exception
Raise(kind) == [t |-> "raise", kind |-> kind]
Raised(v) == v.t = "raise"

\* float(v): ValueError for a str that is no number, TypeError for None, a
\* dict or a list
PyFloat(v) ==
    CASE IsNumber(v) -> Num(NumberOf(v))
      [] IsStr(v) /\ IsDecimalStr(Strip(v.s)) -> Num(DecimalStrValue(Strip(v.s)))
      [] IsStr(v) -> Raise("ValueError")
      [] OTHER -> Raise("TypeError")

\* NoonParser._extract_price(data)
_extract_price(data) ==
    LET price == GetFirst(data, <<"price", "salePrice", "currentPrice", "amount">>)
    IN CASE IsNull(price) -> Null
         [] IsNumber(price) -> Num(NumberOf(price))
         [] IsStr(price) -> _parse_price(price.s)
         [] price.t = "obj" -> PyFloat(GetOr(price, "value", GetOr(price, "amount", Num(0))))
         [] OTHER -> Null

\* NoonParser._extract_url(data); a truthy value that is no str has no startswith
_extract_url(data) ==
    LET url == GetFirst(data, <<"url", "link", "productUrl", "href", "slug">>)
    IN IF ~Truthy(url) THEN Null
       ELSE IF ~IsStr(url) THEN Raise("AttributeError")
       ELSE Str(_normalize_url(url.s))

\* key.lower() of the keys that occur in the sample documents
KeyLower(key) ==
    CASE key = "productId" -> "productid"
      [] key = "Title" -> "title"
      [] OTHER -> key

\* NoonParser._looks_like_product(obj)
product_indicators == {"title", "name", "price", "url", "link", "sku", "productId"}
_looks_like_product(obj) ==
    \E i \in 1..Len(obj.kv) : KeyLower(obj.kv[i].k) \in product_indicators

\* the product_data dict built by _json_to_product once title, price and url are there
JsonProductData(data, title, price, url) ==
    [title |-> Str(Strip(title.s)),
     price |-> price,
     product_url |-> url,
     category |-> GetFirst(data, <<"category", "categoryPath">>),
     image_url |-> GetFirst(data, <<"imageUrl", "image", "thumbnail">>),
     sku |-> GetFirst(data, <<"sku", "productId", "id">>),
     review_count |-> GetFirst(data, <<"reviewCount", "reviews", "numReviews">>),
     average_rating |-> GetFirst(data, <<"rating", "averageRating", "starRating">>),
     bsr |-> GetFirst(data, <<"bsr", "bestSellerRank", "rank">>),
     bsr_category |-> GetFirst(data, <<"bsrCategory", "category">>),
     availability |-> GetFirst(data, <<"availability", "stockStatus", "inStock">>),
     discount_percentage |-> GetFirst(data, <<"discount", "discountPercent", "salePercent">>),
     author |-> GetFirst(data, <<"author", "authorName">>),
     format |-> GetFirst(data, <<"format", "bookFormat", "edition">>),
     publication_date |-> GetFirst(data, <<"publicationDate", "publishDate", "releaseDate">>),
     language |-> GetFirst(data, <<"language", "lang">>)]

\* _json_to_product without its price gate: a missing price becomes 0
JsonToProductPriceDefaulted(data) ==
    LET title == OrChain(<<Get(data, "title"), Get(data, "name"), Get(data, "productName"),
                           Get(data, "displayName"), Str(<<>>)>>)
        found == _extract_price(data)
        price == IF Raised(found) \/ IsNull(found) THEN Num(0) ELSE found
        url == _extract_url(data)
    IN CASE ~Truthy(title) \/ ~IsStr(title) -> Null
         [] Raised(url) \/ ~Truthy(url) -> Null
         [] OTHER ->
            LET product == Product(JsonProductData(data, title, price, url))
            IN IF product = Invalid THEN Null ELSE product

\* NoonParser._json_to_product(data): a Product, or Null for None.  Every
\* exception raised inside (a title or url that is no str, float() of a
\* price object, ValidationError) is caught and gives None.
_json_to_product(data) ==
    LET title == OrChain(<<Get(data, "title"), Get(data, "name"), Get(data, "productName"),
                           Get(data, "displayName"), Str(<<>>)>>)
        price == _extract_price(data)
        url == _extract_url(data)
    IN CASE ~Truthy(title) -> Null
         [] Raised(price) \/ IsNull(price) -> Null
         [] Raised(url) \/ ~Truthy(url) -> Null
         [] ~IsStr(title) -> Null
         [] OTHER ->
            LET product == Product(JsonProductData(data, title, price, url))
            IN IF product = Invalid THEN Null ELSE product

\* NoonParser._find_products_in_json(data): the Products of every product-like
\* object, the object itself first and then its values in document order
RECURSIVE _find_products_in_json(_)
RECURSIVE FindProductsInItems(_)
FindProductsInItems(items) ==
    IF items = <<>> THEN <<>>
    ELSE _find_products_in_json(Head(items)) \o FindProductsInItems(Tail(items))

_find_products_in_json(data) ==
    CASE data.t = "obj" ->
            LET product == IF _looks_like_product(data) THEN _json_to_product(data) ELSE Null
                own == IF product = Null THEN <<>> ELSE <<product>>
            IN own \o FindProductsInItems([i \in 1..Len(data.kv) |-> data.kv[i].v])
      [] data.t = "list" -> FindProductsInItems(data.items)
      [] OTHER -> <<>>

\* ------------------------------------------------------------------ NoonParser: HTML cards
\*
\* A product card is an element with attributes and a sequence of leaf
\* descendants ("kids") in document order.  A kid has a tag, a class and a
\* data-qa attribute (texts), an itemprop attribute, the tag and the class of
\* the element that encloses it (for the descendant selectors), a text, and
\* for links and images href and src.

SelCls(sub) == [kind |-> "cls", arg |-> sub]
SelQa(sub) == [kind |-> "qa", arg |-> sub]
SelTag(tag) == [kind |-> "tag", arg |-> tag]
SelAttr(name) == [kind |-> "attr", arg |-> name]
SelIn(wrap, tag) == [kind |-> "in", arg |-> wrap, tag |-> tag]
SelEither(sub1, sub2) == [kind |-> "either", arg |-> sub1, arg2 |-> sub2]
SelTagCls(tag, sub) == [kind |-> "tagcls", arg |-> sub, tag |-> tag]
SelClsBoth(sub1, sub2) == [kind |-> "clsboth", arg |-> sub1, arg2 |-> sub2]
SelClsNot(sub, nots) == [kind |-> "clsnot", arg |-> sub, nots |-> nots]
SelTagNot(tag, nots) == [kind |-> "tagnot", tag |-> tag, nots |-> nots]
SelProp(value) == [kind |-> "prop", arg |-> value]
SelInTag(wrap_tag, wrap, tag) == [kind |-> "intag", arg |-> wrap, wrap_tag |-> wrap_tag, tag |-> tag]
SelTagContains(tag, word) == [kind |-> "tagcontains", arg |-> word, tag |-> tag]

\* whether a kid matches a CSS selector
Matches(kid, sel) ==
    CASE sel.kind = "cls" -> Contains(kid.cls, sel.arg)
      [] sel.kind = "qa" -> Contains(kid.qa, sel.arg)
      [] sel.kind = "tag" -> kid.tag = sel.arg
      [] sel.kind = "attr" -> sel.arg \in kid.attrs
      [] sel.kind = "in" -> Contains(kid.wrap, sel.arg) /\ kid.tag = sel.tag
      [] sel.kind = "either" -> Contains(kid.cls, sel.arg) \/ Contains(kid.cls, sel.arg2)
      [] sel.kind = "tagcls" -> kid.tag = sel.tag /\ Contains(kid.cls, sel.arg)
      [] sel.kind = "clsboth" -> Contains(kid.cls, sel.arg) /\ Contains(kid.cls, sel.arg2)
      [] sel.kind = "clsnot" ->
            Contains(kid.cls, sel.arg) /\ \A n \in sel.nots : ~Contains(kid.cls, n)
      [] sel.kind = "tagnot" ->
            kid.tag = sel.tag /\ \A n \in sel.nots : ~Contains(kid.cls, n)
      [] sel.kind = "prop" -> kid.itemprop = sel.arg
      [] sel.kind = "intag" ->
            kid.wrap_tag = sel.wrap_tag /\ Contains(kid.wrap, sel.arg) /\ kid.tag = sel.tag
      [] sel.kind = "tagcontains" -> kid.tag = sel.tag /\ Contains(kid.text, sel.arg)

\* element.select(selector): the matching kids in document order
RECURSIVE SelectFrom(_, _)
SelectFrom(kids, sel) ==
    IF kids = <<>> THEN <<>>
    ELSE (IF Matches(Head(kids), sel) THEN <<Head(kids)>> ELSE <<>>)
         \o SelectFrom(Tail(kids), sel)
Select(element, sel) == SelectFrom(element.kids, sel)

\* element.select_one(selector): a one-element sequence, or <<>> for None
SelectOne(element, sel) ==
    LET found == Select(element, sel)
    IN IF found = <<>> THEN <<>> ELSE <<Head(found)>>

\* element.get_text(): the texts of the descendants, concatenated
RECURSIVE ConcatTexts(_)
ConcatTexts(kids) ==
    IF kids = <<>> THEN <<>> ELSE Head(kids).text \o ConcatTexts(Tail(kids))
GetText(element) == ConcatTexts(element.kids)

\* element.get(name)
Attr(element, name) ==
    IF name \in DOMAIN element.attrs THEN Str(element.attrs[name]) ELSE Null

TITLE_MIN_LEN == 5
TITLE_MAX_LEN == 200

\* NoonParser._find_text_precise(element, selectors)
RECURSIVE _find_text_precise(_, _)
_find_text_precise(element, selectors) ==
    IF selectors = <<>> THEN Null
    ELSE LET found == SelectOne(element, Head(selectors))
             text == IF found = <<>> THEN <<>> ELSE Strip(found[1].text)
         IN IF found # <<>> /\ Len(text) >= TITLE_MIN_LEN /\ Len(text) <= TITLE_MAX_LEN
            THEN Str(text)
            ELSE _find_text_precise(element, Tail(selectors))

card_title_selectors ==
    <<SelCls(<<"t", "i", "t", "l", "e">>), SelCls(<<"n", "a", "m", "e">>), SelTag("h2"), SelTag("h3"), SelTag("h4"),
      SelQa(<<"t", "i", "t", "l", "e">>), SelQa(<<"n", "a", "m", "e">>)>>

\* NoonParser._find_price(element)
card_price_selectors ==
    <<SelCls(<<"p", "r", "i", "c", "e">>), SelCls(<<"P", "r", "i", "c", "e">>), SelQa(<<"p", "r", "i", "c", "e">>), SelAttr("data-price")>>

RECURSIVE FindPriceBySelectors(_, _)
FindPriceBySelectors(element, selectors) ==
    IF selectors = <<>> THEN _parse_price(GetText(element))
    ELSE LET price_elem == SelectOne(element, Head(selectors))
             price == IF price_elem = <<>> THEN Null
                      ELSE _parse_price(Strip(price_elem[1].text))
         IN IF Truthy(price) THEN price
            ELSE FindPriceBySelectors(element, Tail(selectors))

_find_price(element) == FindPriceBySelectors(element, card_price_selectors)

\* NoonParser._find_url(element)
NOON_COM == <<"n", "o", "o", "n", ".", "c", "o", "m">>
UrlOfHref(href) == Contains(href, NOON_COM) \/ StartsWith(href, <<"/">>)

_find_url(element) ==
    LET own == Attr(element, "href")
        links == SelectFrom(element.kids, SelAttr("href"))
        anchors == SelectFrom(links, SelTag("a"))
        data == OrChain(<<Attr(element, "data-url"), Attr(element, "data-href"),
                          Attr(element, "data-link")>>)
    IN CASE element.tag = "a" /\ Truthy(own) /\ UrlOfHref(own.s) -> Str(_normalize_url(own.s))
         [] OTHER ->
            CASE anchors # <<>> /\ UrlOfHref(anchors[1].href) ->
                     Str(_normalize_url(anchors[1].href))
              [] OTHER -> IF Truthy(data) THEN Str(_normalize_url(data.s)) ELSE Null

\* NoonParser._find_category(element)
card_category_selectors ==
    <<SelIn(<<"b", "r", "e", "a", "d", "c", "r", "u", "m", "b">>, "a"), SelIn(<<"c", "a", "t", "e", "g", "o", "r", "y">>, "a"), SelIn(<<"C", "a", "t", "e", "g", "o", "r", "y">>, "a"),
      SelIn(<<"b", "r", "e", "a", "d", "c", "r", "u", "m", "b">>, "a"), SelIn(<<"b", "r", "e", "a", "d", "c", "r", "u", "m", "b">>, "a"),
      SelQa(<<"c", "a", "t", "e", "g", "o", "r", "y">>), SelAttr("data-category")>>

CATEGORY_MIN_LEN == 3
CATEGORY_MAX_LEN == 100

RECURSIVE FindCategoryBySelectors(_, _)
FindCategoryBySelectors(element, selectors) ==
    IF selectors = <<>>
    THEN LET category == OrChain(<<Attr(element, "data-category"), Attr(element, "data-cat")>>)
         IN IF Truthy(category) THEN category ELSE Null
    ELSE LET found == SelectOne(element, Head(selectors))
             text == IF found = <<>> THEN <<>> ELSE Strip(found[1].text)
         IN IF /\ found # <<>>
               /\ Len(text) >= CATEGORY_MIN_LEN /\ Len(text) <= CATEGORY_MAX_LEN
               /\ ~IsDigitStr(text)
            THEN Str(text)
            ELSE FindCategoryBySelectors(element, Tail(selectors))

_find_category(element) == FindCategoryBySelectors(element, card_category_selectors)

\* NoonParser._find_image(element)
_find_image(element) ==
    LET img == SelectOne(element, SelTag("img"))
    IN IF img = <<>> THEN Null
       ELSE IF Len(img[1].src) > 0 THEN Str(img[1].src) ELSE Null

\* the first index at or after i of t that holds no white space
SkipSpaces(t, i) ==
    MinOf({k \in i..(Len(t) + 1) : k = Len(t) + 1 \/ ~IsSpace(t[k])})

\* NoonParser._find_review_count(element): re.search(r'(\d+)\s*reviews?', text, re.I)
REVIEW == <<"r", "e", "v", "i", "e", "w">>
ReviewMatchAt(t, i) ==
    /\ IsDigit(t[i])
    /\ OccursAt(Lower(t), REVIEW, SkipSpaces(t, DigitRunEnd(t, i) + 1))

_find_review_count(element) ==
    LET text == GetText(element)
        hits == {i \in 1..Len(text) : ReviewMatchAt(text, i)}
    IN IF hits = {} THEN Null
       ELSE Num(ParseNat(text, MinOf(hits), DigitRunEnd(text, MinOf(hits))) * Scale)

\* re.search(r'(\d+\.?\d*)', text) and float(group): [int, frac], or <<>>
SearchRating(t) ==
    LET m == SearchDigits(t)
    IN IF m = <<>> THEN <<>>
       ELSE LET j == m[2]
            IN IF j + 2 <= Len(t) /\ t[j + 1] = "." /\ IsDigit(t[j + 2])
               THEN <<FloatOfDecimal(t, <<m[1], j, DigitRunEnd(t, j + 2)>>)>>
               ELSE <<FloatOfDigits(t, m)>>

RATING_MAX == 5

\* 0 <= rating <= 5
RatingInRange(f) ==
    \/ f.int < RATING_MAX
    \/ f.int = RATING_MAX /\ \A d \in 1..Len(f.frac) : f.frac[d] = "0"

\* NoonParser._find_rating(element)
RECURSIVE FirstRatingIn(_)
FirstRatingIn(stars) ==
    IF stars = <<>> THEN Null
    ELSE LET m == SearchRating(Head(stars).text)
         IN IF m # <<>> /\ RatingInRange(m[1]) THEN Num(Hundredths(m[1]))
            ELSE FirstRatingIn(Tail(stars))

_find_rating(element) ==
    FirstRatingIn(Select(element, SelEither(<<"s", "t", "a", "r">>, <<"r", "a", "t", "i", "n", "g">>)))

\* NoonParser._find_discount_improved(element)
DISCOUNT_WORDS == {<<"O", "f", "f">>, <<"o", "f", "f">>, <<"d", "i", "s", "c", "o", "u", "n", "t">>, <<"D", "i", "s", "c", "o", "u", "n", "t">>, <<"s", "a", "l", "e">>, <<"S", "a", "l", "e">>}
CASHBACK == <<"c", "a", "s", "h", "b", "a", "c", "k">>
CASHBACK_WINDOW == 50
DISCOUNT_MAX == 100

\* re.search(r'(\d+)%\s*(?:Off|off|discount|Discount|sale|Sale)', t) matches at i
DiscountMatchAt(t, i) ==
    /\ IsDigit(t[i])
    /\ LET j == DigitRunEnd(t, i)
       IN /\ j + 1 <= Len(t)
          /\ t[j + 1] = "%"
          /\ \E w \in DISCOUNT_WORDS : OccursAt(t, w, SkipSpaces(t, j + 2))

\* the leftmost match as <<start, end of the digits>>, or <<>>
SearchDiscount(t) ==
    LET hits == {i \in 1..Len(t) : DiscountMatchAt(t, i)}
    IN IF hits = {} THEN <<>> ELSE <<MinOf(hits), DigitRunEnd(t, MinOf(hits))>>

DiscountValue(t, m) == ParseNat(t, m[1], m[2])

card_discount_selectors ==
    <<SelCls(<<"D", "i", "s", "c", "o", "u", "n", "t">>), SelCls(<<"d", "i", "s", "c", "o", "u", "n", "t">>), SelCls(<<"s", "a", "l", "e">>), SelCls(<<"S", "a", "l", "e">>),
      SelCls(<<"o", "f", "f">>), SelCls(<<"O", "f", "f">>), SelCls(<<"p", "e", "r", "c", "e", "n", "t">>)>>

\* text.lower()[:match.start() + 50]; match.start() is m[1] - 1
CashbackContext(t, m) ==
    SubSeq(Lower(t), 1, IF m[1] - 1 + CASHBACK_WINDOW < Len(t)
                        THEN m[1] - 1 + CASHBACK_WINDOW ELSE Len(t))

\* the fallback on the whole text of the element
DiscountInWholeText(element) ==
    LET text == GetText(element)
        m == SearchDiscount(text)
    IN IF /\ m # <<>>
          /\ ~Contains(CashbackContext(text, m), CASHBACK)
          /\ DiscountValue(text, m) <= DISCOUNT_MAX
       THEN Num(DiscountValue(text, m) * Scale)
       ELSE Null

RECURSIVE FindDiscountBySelectors(_, _)
FindDiscountBySelectors(element, selectors) ==
    IF selectors = <<>> THEN DiscountInWholeText(element)
    ELSE LET discount_elem == SelectOne(element, Head(selectors))
             text == IF discount_elem = <<>> THEN <<>> ELSE Strip(discount_elem[1].text)
             m == SearchDiscount(text)
         IN IF /\ discount_elem # <<>>
               /\ ~Contains(Lower(text), CASHBACK)
               /\ m # <<>>
               /\ DiscountValue(text, m) <= DISCOUNT_MAX
            THEN Num(DiscountValue(text, m) * Scale)
            ELSE FindDiscountBySelectors(element, Tail(selectors))

_find_discount_improved(element) == FindDiscountBySelectors(element, card_discount_selectors)

\* NoonParser._find_availability(element)
OUT_OF_STOCK == <<"o", "u", "t", " ", "o", "f", " ", "s", "t", "o", "c", "k">>
UNAVAILABLE == <<"u", "n", "a", "v", "a", "i", "l", "a", "b", "l", "e">>
IN_STOCK == <<"i", "n", " ", "s", "t", "o", "c", "k">>
AVAILABLE == <<"a", "v", "a", "i", "l", "a", "b", "l", "e">>
LOW_STOCK == <<"l", "o", "w", " ", "s", "t", "o", "c", "k">>
LabelOutOfStock == <<"O", "u", "t", " ", "o", "f", " ", "S", "t", "o", "c", "k">>
LabelInStock == <<"I", "n", " ", "S", "t", "o", "c", "k">>
LabelLowStock == <<"L", "o", "w", " ", "S", "t", "o", "c", "k">>

AvailabilityOfText(text) ==
    CASE Contains(text, OUT_OF_STOCK) \/ Contains(text, UNAVAILABLE) -> Str(LabelOutOfStock)
      [] OTHER ->
         CASE Contains(text, IN_STOCK) \/ Contains(text, AVAILABLE) -> Str(LabelInStock)
           [] OTHER -> IF Contains(text, LOW_STOCK) THEN Str(LabelLowStock) ELSE Null

_find_availability(element) == AvailabilityOfText(Lower(GetText(element)))

\* the product_data dict built by _extract_product_info
CardProductData(element, title, price, url) ==
    [title |-> Str(Strip(title.s)),
     price |-> price,
     product_url |-> url,
     category |-> _find_category(element),
     image_url |-> _find_image(element),
     sku |-> OrChain(<<Attr(element, "data-sku"), Attr(element, "data-product-id"),
                       Attr(element, "id")>>),
     review_count |-> _find_review_count(element),
     average_rating |-> _find_rating(element),
     discount_percentage |-> _find_discount_improved(element),
     availability |-> _find_availability(element)]

\* NoonParser._extract_product_info(element): a Product, or Null for None
_extract_product_info(element) ==
    LET title == _find_text_precise(element, card_title_selectors)
        price == _find_price(element)
        url == _find_url(element)
    IN CASE ~Truthy(title) -> Null
         [] IsNull(price) -> Null
         [] ~Truthy(url) -> Null
         [] OTHER ->
            LET product == Product(CardProductData(element, title, price, url))
            IN IF product = Invalid THEN Null ELSE product

\* ------------------------------------------------------------------ NoonParser: document
\*
\* A listing document is the sequence of its script tags and, for each of the
\* six card selectors of _extract_from_html, the elements it selects.  A
\* script has a type (application/json or not), a text that does or does not
\* mention products|items|searchResults, and a body: a JSON value, NoString
\* (script.string is None) or Malformed (json.loads raises JSONDecodeError).

Malformed == [t |-> "malformed"]
NoString == [t |-> "nostring"]
Script(json_type, mentions, body) ==
    [json_type |-> json_type, mentions |-> mentions, body |-> body]

\* soup.find_all('script', type='application/json') followed by
\* soup.find_all('script', string=re.compile(...)): a script that is both is
\* listed twice
ScriptsOfListing(doc) ==
    SelectSeq(doc.scripts, LAMBDA sc : sc.json_type)
    \o SelectSeq(doc.scripts, LAMBDA sc : sc.mentions /\ sc.body # NoString)

\* NoonParser._extract_from_json(soup)
RECURSIVE ProductsOfScripts(_)
ProductsOfScripts(scripts) ==
    IF scripts = <<>> THEN <<>>
    ELSE (IF Head(scripts).body \in {Malformed, NoString} THEN <<>>
          ELSE _find_products_in_json(Head(scripts).body))
         \o ProductsOfScripts(Tail(scripts))

\* the variant whose try statement encloses the loop: the first script that
\* is not valid JSON ends it
RECURSIVE ProductsUntilMalformed(_)
ProductsUntilMalformed(scripts) ==
    IF scripts = <<>> \/ Head(scripts).body = Malformed THEN <<>>
    ELSE (IF Head(scripts).body = NoString THEN <<>>
          ELSE _find_products_in_json(Head(scripts).body))
         \o ProductsUntilMalformed(Tail(scripts))

ListingExtractUntilMalformed(doc) == ProductsUntilMalformed(ScriptsOfListing(doc))

ListingExtractFromJson(doc) == ProductsOfScripts(ScriptsOfListing(doc))

\* NoonParser._extract_from_html(soup): the elements of the first selector
\* that selects any, each turned into a Product or skipped
RECURSIVE FirstNonEmpty(_)
FirstNonEmpty(lists) ==
    IF lists = <<>> THEN <<>>
    ELSE IF Head(lists) # <<>> THEN Head(lists) ELSE FirstNonEmpty(Tail(lists))

RECURSIVE ProductsOfElements(_)
ProductsOfElements(elements) ==
    IF elements = <<>> THEN <<>>
    ELSE LET product == _extract_product_info(Head(elements))
         IN (IF product = Null THEN <<>> ELSE <<product>>)
            \o ProductsOfElements(Tail(elements))

ListingExtractFromHtml(doc) == ProductsOfElements(FirstNonEmpty(doc.selected))

\* NoonParser.parse_search_results(html)
parse_search_results(doc) ==
    _remove_duplicates(ListingExtractFromJson(doc) \o ListingExtractFromHtml(doc))

\* ------------------------------------------------------------------ NoonDetailParser: JSON
\*
\* A Python dict built by the parser (product_data, detail_data) is a function
\* from its keys to values.  An operation that can raise returns Ok(dict) or
\* Exc(kind).

EmptyDict == [k \in {} |-> Null]
\* the variant that keeps the value a key already has
DictSetDefault(d1, d2) ==
    [k \in DOMAIN d1 \cup DOMAIN d2 |-> IF k \in DOMAIN d1 THEN d1[k] ELSE d2[k]]
\* d1.update(d2)
DictUpdate(d1, d2) ==
    [k \in DOMAIN d1 \cup DOMAIN d2 |-> IF k \in DOMAIN d2 THEN d2[k] ELSE d1[k]]
DictGet(d, k) == IF k \in DOMAIN d THEN d[k] ELSE Null
Ok(d) == [exc |-> "none", d |-> d]
Exc(kind) == [exc |-> kind, d |-> EmptyDict]

\* self._parse_price(text) on a NoonDetailParser: the class defines no such
\* method (it is a method of NoonParser, which is no base class), so the
\* attribute lookup raises AttributeError whatever the text
Detail_parse_price(text) == Raise("AttributeError")

\* NoonDetailParser._extract_price_value(value)
_extract_price_value(value) ==
    CASE IsNull(value) -> Null
      [] IsNumber(value) -> Num(NumberOf(value))
      [] IsStr(value) -> Detail_parse_price(value.s)
      [] value.t = "obj" -> PyFloat(GetOr(value, "value", GetOr(value, "amount", Num(0))))
      [] OTHER -> Null

\* NoonDetailParser._extract_rating_value(value)
_extract_rating_value(value) ==
    CASE IsNull(value) -> Null
      [] IsNumber(value) ->
            IF 0 <= NumberOf(value) /\ NumberOf(value) <= RATING_MAX * Scale
            THEN Num(NumberOf(value)) ELSE Null
      [] IsStr(value) ->
            LET m == SearchRating(value.s)
            IN IF m # <<>> /\ RatingInRange(m[1]) THEN Num(Hundredths(m[1])) ELSE Null
      [] OTHER -> Null

\* NoonDetailParser._extract_review_count_value(value) and _extract_bsr_value(value)
_extract_review_count_value(value) ==
    CASE IsNull(value) -> Null
      [] IsInt(value) -> value
      [] IsStr(value) ->
            LET m == SearchDigits(value.s)
            IN IF m # <<>> THEN Num(ParseNat(value.s, m[1], m[2]) * Scale) ELSE Null
      [] OTHER -> Null
_extract_bsr_value(value) == _extract_review_count_value(value)

\* NoonDetailParser._extract_availability_value(value)
_extract_availability_value(value) ==
    CASE IsNull(value) -> Null
      [] IsStr(value) -> AvailabilityOfText(Lower(value.s))
      [] value.t = "bool" -> IF value.b THEN Str(LabelInStock) ELSE Str(LabelOutOfStock)
      [] OTHER -> Null

HasAnyKey(data, keys) == \E k \in keys : HasKey(data, k)

\* the keys that make a dict product data
product_data_keys == {"title", "name", "productName", "price", "rating", "reviews"}

\* the fields _find_product_data_in_json takes from one product-shaped dict
DetailFieldTriggers ==
    [title |-> {"title", "name", "productName"},
     price |-> {"price", "salePrice", "currentPrice"},
     average_rating |-> {"rating", "averageRating", "starRating"},
     review_count |-> {"reviewCount", "reviews", "numReviews"},
     author |-> {"author", "authorName"},
     category |-> {"category", "categoryPath"},
     format |-> {"format", "bookFormat", "edition"},
     publication_date |-> {"publicationDate", "publishDate", "releaseDate"},
     language |-> {"language", "lang"},
     bsr |-> {"bsr", "bestSellerRank", "rank"},
     availability |-> {"availability", "stockStatus", "inStock"}]

DetailFieldValue(data, f) ==
    CASE f = "title" -> GetFirst(data, <<"title", "name", "productName">>)
      [] f = "price" ->
            _extract_price_value(GetFirst(data, <<"price", "salePrice", "currentPrice">>))
      [] f = "average_rating" ->
            _extract_rating_value(GetFirst(data, <<"rating", "averageRating", "starRating">>))
      [] f = "review_count" ->
            _extract_review_count_value(GetFirst(data, <<"reviewCount", "reviews", "numReviews">>))
      [] f = "author" -> GetFirst(data, <<"author", "authorName">>)
      [] f = "category" -> GetFirst(data, <<"category", "categoryPath">>)
      [] f = "format" -> GetFirst(data, <<"format", "bookFormat", "edition">>)
      [] f = "publication_date" ->
            GetFirst(data, <<"publicationDate", "publishDate", "releaseDate">>)
      [] f = "language" -> GetFirst(data, <<"language", "lang">>)
      [] f = "bsr" -> _extract_bsr_value(GetFirst(data, <<"bsr", "bestSellerRank", "rank">>))
      [] f = "availability" ->
            _extract_availability_value(GetFirst(data, <<"availability", "stockStatus", "inStock">>))

OwnProductData(data) ==
    IF ~HasAnyKey(data, product_data_keys) THEN Ok(EmptyDict)
    ELSE LET fields == {f \in DOMAIN DetailFieldTriggers :
                            HasAnyKey(data, DetailFieldTriggers[f])}
             result == [f \in fields |-> DetailFieldValue(data, f)]
         IN IF "price" \in fields /\ Raised(result["price"])
            THEN Exc(result["price"].kind)
            ELSE Ok(result)

\* NoonDetailParser._find_product_data_in_json(data): the fields of the dict
\* itself, updated by those of its values in document order (a later
\* fragment overwrites an earlier one); an exception ends the search
RECURSIVE _find_product_data_in_json(_)
RECURSIVE UpdateFromItems(_, _)
UpdateFromItems(result, items) ==
    IF items = <<>> THEN Ok(result)
    ELSE LET nested_result == _find_product_data_in_json(Head(items))
         IN IF nested_result.exc # "none" THEN nested_result
            ELSE UpdateFromItems(DictUpdate(result, nested_result.d), Tail(items))

_find_product_data_in_json(data) ==
    CASE data.t = "obj" ->
            LET own == OwnProductData(data)
            IN IF own.exc # "none" THEN own
               ELSE UpdateFromItems(own.d, [i \in 1..Len(data.kv) |-> data.kv[i].v])
      [] data.t = "list" -> UpdateFromItems(EmptyDict, data.items)
      [] OTHER -> Ok(EmptyDict)

\* NoonDetailParser._extract_from_json(soup): an unparseable script and a
\* script whose search raises AttributeError are skipped; any other
\* exception leaves the loop and the method
RECURSIVE UpdateFromScripts(_, _)
UpdateFromScripts(product_data, scripts) ==
    IF scripts = <<>> THEN Ok(product_data)
    ELSE IF Head(scripts).body \in {Malformed, NoString}
         THEN UpdateFromScripts(product_data, Tail(scripts))
         ELSE LET found_data == _find_product_data_in_json(Head(scripts).body)
              IN CASE found_data.exc = "none" ->
                          UpdateFromScripts(DictUpdate(product_data, found_data.d), Tail(scripts))
                   [] found_data.exc = "AttributeError" ->
                          UpdateFromScripts(product_data, Tail(scripts))
                   [] OTHER -> found_data

DetailExtractFromJson(doc) == UpdateFromScripts(EmptyDict, ScriptsOfListing(doc))

\* ------------------------------------------------------------------ NoonDetailParser: HTML
\*
\* A detail page is its scripts, its elements in document order (kids, as in
\* a card; wrap is the class of the nearest enclosing div, section or
\* article), its meta tags (a function from the property or name to the
\* content) and the text of its title tag (<<text>>, or <<>> without one).

DetailDoc(scripts, kids, metas, title_tag) ==
    [scripts |-> scripts, kids |-> kids, metas |-> metas, title_tag |-> title_tag]

\* soup.find('meta', {...}).get('content'), Null without the tag
MetaContent(soup, key) == IF key \in DOMAIN soup.metas THEN Str(soup.metas[key]) ELSE Null

\* soup.get_text()
PageText(soup) == (IF soup.title_tag = <<>> THEN <<>> ELSE soup.title_tag[1]) \o GetText(soup)

RECURSIVE ConcatAll(_)
ConcatAll(seqs) == IF seqs = <<>> THEN <<>> ELSE Head(seqs) \o ConcatAll(Tail(seqs))

\* the elements select_one finds for each selector of a list, in order
SelectOneEach(soup, selectors) ==
    ConcatAll([i \in 1..Len(selectors) |-> SelectOne(soup, selectors[i])])
\* the elements select finds for each selector of a list, in order
SelectEach(soup, selectors) ==
    ConcatAll([i \in 1..Len(selectors) |-> Select(soup, selectors[i])])

DETAIL_TITLE_MIN_LEN == 10
SELLER == <<"s", "e", "l", "l", "e", "r">>
SOLD_BY == <<"s", "o", "l", "d", " ", "b", "y">>
BUY == <<"b", "u", "y">>
MERCHANT == <<"m", "e", "r", "c", "h", "a", "n", "t">>
NOON == <<"n", "o", "o", "n">>

title_selectors ==
    <<SelTagCls("h1", <<"p", "r", "o", "d", "u", "c", "t">>), SelTagCls("h1", <<"P", "r", "o", "d", "u", "c", "t">>),
      SelCls(<<"P", "r", "o", "d", "u", "c", "t", "T", "i", "t", "l", "e">>), SelCls(<<"p", "r", "o", "d", "u", "c", "t", "-", "t", "i", "t", "l", "e">>), SelCls(<<"p", "r", "o", "d", "u", "c", "t", "N", "a", "m", "e">>),
      SelQa(<<"p", "r", "o", "d", "u", "c", "t", "-", "t", "i", "t", "l", "e">>), SelQa(<<"p", "r", "o", "d", "u", "c", "t", "-", "n", "a", "m", "e">>),
      SelTagNot("h1", {<<"s", "e", "l", "l", "e", "r">>, <<"S", "e", "l", "l", "e", "r">>})>>

TitleLengthOk(text) == DETAIL_TITLE_MIN_LEN <= Len(text) /\ Len(text) <= TITLE_MAX_LEN

\* strategy 1 of _find_title: the first selected element whose text is a title
RECURSIVE TitleBySelectors(_)
TitleBySelectors(found) ==
    IF found = <<>> THEN Null
    ELSE LET text == Strip(Head(found).text)
         IN IF /\ TitleLengthOk(text)
               /\ ~Contains(Lower(text), SELLER)
               /\ ~Contains(Lower(text), SOLD_BY)
               /\ ~StartsWith(Lower(text), BUY)
               /\ ~IsDigitStr(text)
            THEN Str(text)
            ELSE TitleBySelectors(Tail(found))

\* strategy 2 of _find_title: the first h1 outside a seller section
RECURSIVE TitleByHeading(_)
TitleByHeading(h1_elements) ==
    IF h1_elements = <<>> THEN Null
    ELSE LET h1 == Head(h1_elements)
             parent_classes == IF h1.wrap_tag \in {"div", "section", "article"}
                               THEN Lower(h1.wrap) ELSE <<>>
             text == Strip(h1.text)
         IN IF Contains(parent_classes, SELLER) \/ Contains(parent_classes, MERCHANT)
            THEN TitleByHeading(Tail(h1_elements))
            ELSE IF /\ TitleLengthOk(text)
                    /\ ~Contains(Lower(text), SELLER)
                    /\ ~Contains(Lower(text), SOLD_BY)
                 THEN Str(text)
                 ELSE TitleByHeading(Tail(h1_elements))

\* re.sub(r'\s*\|\s*Noon.*$', '', text, flags=re.I) on a text of one line
NoonSuffixAt(text, p) ==
    text[p] = "|" /\ OccursAt(Lower(text), NOON, SkipSpaces(text, p + 1))
StripNoonSuffix(text) ==
    LET bars == {p \in 1..Len(text) : NoonSuffixAt(text, p)}
    IN IF bars = {} THEN text
       ELSE LET p == MinOf(bars)
                start == MinOf({i \in 1..p : \A k \in i..(p - 1) : IsSpace(text[k])})
            IN SubSeq(text, 1, start - 1)

\* strategy 3 of _find_title: og:title, else the title meta, else the title tag
TitleByMeta(soup) ==
    LET title_text ==
            CASE "og:title" \in DOMAIN soup.metas -> soup.metas["og:title"]
              [] "title" \in DOMAIN soup.metas -> soup.metas["title"]
              [] soup.title_tag # <<>> -> Strip(soup.title_tag[1])
              [] OTHER -> <<>>
        cleaned == StripNoonSuffix(title_text)
    IN IF TitleLengthOk(cleaned) /\ ~Contains(Lower(cleaned), SELLER)
       THEN Str(Strip(cleaned))
       ELSE Null

\* NoonDetailParser._find_title(soup)
_find_title(soup) ==
    LET by_selectors == TitleBySelectors(SelectOneEach(soup, title_selectors))
        by_heading == TitleByHeading(Select(soup, SelTag("h1")))
    IN CASE by_selectors # Null -> by_selectors
         [] by_heading # Null -> by_heading
         [] OTHER -> TitleByMeta(soup)

sale_price_selectors ==
    <<SelCls(<<"s", "a", "l", "e", "-", "p", "r", "i", "c", "e">>), SelCls(<<"S", "a", "l", "e", "P", "r", "i", "c", "e">>), SelCls(<<"c", "u", "r", "r", "e", "n", "t", "-", "p", "r", "i", "c", "e">>),
      SelCls(<<"C", "u", "r", "r", "e", "n", "t", "P", "r", "i", "c", "e">>), SelClsBoth(<<"p", "r", "i", "c", "e">>, <<"s", "a", "l", "e">>),
      SelQa(<<"s", "a", "l", "e", "-", "p", "r", "i", "c", "e">>), SelQa(<<"c", "u", "r", "r", "e", "n", "t", "-", "p", "r", "i", "c", "e">>)>>

price_selectors ==
    <<SelClsNot(<<"p", "r", "i", "c", "e">>, {<<"o", "r", "i", "g", "i", "n", "a", "l">>, <<"w", "a", "s">>, <<"s", "t", "r", "i", "k", "e">>}),
      SelClsNot(<<"P", "r", "i", "c", "e">>, {<<"o", "r", "i", "g", "i", "n", "a", "l">>, <<"w", "a", "s">>, <<"s", "t", "r", "i", "k", "e">>}),
      SelQa(<<"p", "r", "i", "c", "e">>), SelAttr("data-price")>>

WAS == <<"w", "a", "s">>
ORIGINAL == <<"o", "r", "i", "g", "i", "n", "a", "l">>
BEFORE == <<"b", "e", "f", "o", "r", "e">>

\* price = self._parse_price(price_text); if price: return price, over the
\* elements in order: the first truthy price, or the exception raised
RECURSIVE FirstParsedPrice(_)
FirstParsedPrice(elems) ==
    IF elems = <<>> THEN Null
    ELSE LET price == Detail_parse_price(Strip(Head(elems).text))
         IN IF Raised(price) THEN price
            ELSE IF Truthy(price) THEN price
            ELSE FirstParsedPrice(Tail(elems))

MarkedOriginal(elem) ==
    LET text == Lower(Strip(elem.text))
    IN Contains(text, WAS) \/ Contains(text, ORIGINAL) \/ Contains(text, BEFORE)

\* strategy 3 of _find_price_improved: the product:price:amount meta
PriceByMeta(soup) ==
    LET price_value == MetaContent(soup, "product:price:amount")
    IN IF ~Truthy(price_value) THEN Null
       ELSE LET price == PyFloat(price_value)
            IN IF ~Raised(price) /\ PRICE_MIN * Scale <= price.n /\ price.n <= PRICE_MAX * Scale
               THEN price ELSE Null

\* NoonDetailParser._find_price_improved(soup)
_find_price_improved(soup) ==
    LET sale == FirstParsedPrice(SelectOneEach(soup, sale_price_selectors))
        any == FirstParsedPrice(SelectSeq(SelectEach(soup, price_selectors),
                                          LAMBDA e : ~MarkedOriginal(e)))
    IN CASE sale # Null -> sale
         [] any # Null -> any
         [] OTHER -> PriceByMeta(soup)

\* the stripped texts of elements
TextsOf(found) == [i \in 1..Len(found) |-> Strip(found[i].text)]

\* ' > '.join(categories[-2:])
SEPARATOR == <<" ", ">", " ">>
JoinLastTwo(categories) ==
    IF Len(categories) = 1 THEN categories[1]
    ELSE categories[Len(categories) - 1] \o SEPARATOR \o categories[Len(categories)]

detail_category_selectors ==
    <<SelClsNot(<<"c", "a", "t", "e", "g", "o", "r", "y">>, {<<"b", "r", "e", "a", "d", "c", "r", "u", "m", "b">>}), SelQa(<<"c", "a", "t", "e", "g", "o", "r", "y">>), SelProp("category"),
      SelClsNot(<<"C", "a", "t", "e", "g", "o", "r", "y">>, {<<"b", "r", "e", "a", "d", "c", "r", "u", "m", "b">>})>>
breadcrumb_selectors ==
    <<SelInTag("nav", <<"b", "r", "e", "a", "d", "c", "r", "u", "m", "b">>, "a"), SelInTag("ol", <<"b", "r", "e", "a", "d", "c", "r", "u", "m", "b">>, "a"),
      SelIn(<<"b", "r", "e", "a", "d", "c", "r", "u", "m", "b">>, "a")>>
navigation_words == {<<"h", "o", "m", "e">>, <<"b", "o", "o", "k", "s">>, <<"n", "o", "o", "n">>, <<"u", "a", "e">>, <<"o", "m", "a", "n">>, <<"q", "a", "t", "a", "r">>, <<"s", "a", "u", "d", "i">>}
country_words == {<<"e", "g", "y", "p", "t">>, <<"k", "u", "w", "a", "i", "t">>}
book_words == {<<"b", "o", "o", "k">>, <<"f", "i", "c", "t", "i", "o", "n">>, <<"n", "o", "n", "-", "f", "i", "c", "t", "i", "o", "n">>, <<"l", "i", "t", "e", "r", "a", "t", "u", "r", "e">>, <<"e", "d", "u", "c", "a", "t", "i", "o", "n">>, <<"c", "h", "i", "l", "d", "r", "e", "n">>}
NAVIGATION_MAX_LEN == 2

NotNavigation(text, words) ==
    /\ Len(text) > NAVIGATION_MAX_LEN
    /\ Lower(text) \notin words
    /\ ~StartsWith(text, NOON)

\* strategy 1 of _find_category: the category elements of the first selector
\* that yields a category
RECURSIVE CategoryBySelectors(_, _)
CategoryBySelectors(soup, selectors) ==
    IF selectors = <<>> THEN Null
    ELSE LET categories == SelectSeq(TextsOf(Select(soup, Head(selectors))),
                                     LAMBDA text : NotNavigation(text, navigation_words))
         IN IF categories # <<>> THEN Str(JoinLastTwo(categories))
            ELSE CategoryBySelectors(soup, Tail(selectors))

\* strategy 2 of _find_category: the breadcrumb links, book categories first
\* (the list the code accumulates over the selectors is empty whenever it moves
\* on to the next selector)
RECURSIVE CategoryByBreadcrumbs(_, _)
CategoryByBreadcrumbs(soup, selectors) ==
    IF selectors = <<>> THEN Null
    ELSE LET categories ==
                 SelectSeq(TextsOf(Select(soup, Head(selectors))),
                           LAMBDA text : /\ NotNavigation(text, navigation_words \cup country_words)
                                         /\ ~IsDigitStr(text))
             book_categories ==
                 SelectSeq(categories, LAMBDA c : \E word \in book_words : Contains(Lower(c), word))
         IN IF categories = <<>> THEN CategoryByBreadcrumbs(soup, Tail(selectors))
            ELSE IF book_categories # <<>> THEN Str(JoinLastTwo(book_categories))
            ELSE Str(JoinLastTwo(categories))

\* NoonDetailParser._find_category(soup)
Detail_find_category(soup) ==
    LET by_selectors == CategoryBySelectors(soup, detail_category_selectors)
    IN IF by_selectors # Null THEN by_selectors
       ELSE CategoryByBreadcrumbs(soup, breadcrumb_selectors)

IsUpper(c) == \E i \in 1..Len(UpperCase) : UpperCase[i] = c
IsAlpha(c) == IsUpper(c) \/ \E i \in 1..Len(LowerCase) : LowerCase[i] = c

\* re.sub(r'^Word:?\s*', '', text, flags=re.I)
RemoveLabel(text, word) ==
    IF ~StartsWith(Lower(text), word) THEN text
    ELSE LET after_colon == IF Len(text) > Len(word) /\ text[Len(word) + 1] = ":"
                            THEN Len(word) + 2 ELSE Len(word) + 1
         IN SubSeq(text, SkipSpaces(text, after_colon), Len(text))

AUTHOR == <<"a", "u", "t", "h", "o", "r">>
BY_WORD == <<"b", "y">>
HTTP == <<"h", "t", "t", "p">>
AUTHOR_MIN_LEN == 2
AUTHOR_MAX_LEN == 100

author_selectors ==
    <<SelClsNot(<<"a", "u", "t", "h", "o", "r">>, {<<"n", "o", "o", "n">>, <<"s", "e", "l", "l", "e", "r">>}), SelClsNot(<<"A", "u", "t", "h", "o", "r">>, {<<"n", "o", "o", "n">>, <<"s", "e", "l", "l", "e", "r">>}),
      SelQa(<<"a", "u", "t", "h", "o", "r">>), SelProp("author")>>

\* strategy 1 of _find_author: the first author meta tag of the page
AuthorMetaKey(soup) ==
    CASE "book:author" \in DOMAIN soup.metas -> "book:author"
      [] "author" \in DOMAIN soup.metas -> "author"
      [] "og:book:author" \in DOMAIN soup.metas -> "og:book:author"
      [] OTHER -> ""
AuthorByMeta(soup) ==
    IF AuthorMetaKey(soup) = "" THEN Null
    ELSE LET author == Strip(soup.metas[AuthorMetaKey(soup)])
         IN IF Len(author) > AUTHOR_MIN_LEN /\ ~Contains(Lower(author), NOON)
            THEN Str(author) ELSE Null

\* strategy 2 of _find_author: the first author element with a usable text
RECURSIVE AuthorByElements(_)
AuthorByElements(found) ==
    IF found = <<>> THEN Null
    ELSE LET text == RemoveLabel(RemoveLabel(Strip(Head(found).text), AUTHOR), BY_WORD)
         IN IF /\ Len(text) > AUTHOR_MIN_LEN
               /\ ~Contains(Lower(text), NOON)
               /\ ~Contains(Lower(text), SELLER)
               /\ ~StartsWith(text, HTTP)
               /\ Len(text) < AUTHOR_MAX_LEN
            THEN Str(text)
            ELSE AuthorByElements(Tail(found))

\* re.search(label + gap + r'([A-Z][a-zA-Z\s]+?)(?:\s|,|$)', t) matches at i,
\* where the gap is \s+ (gap_min = 1) or \s* (gap_min = 0); the group is
\* t[g..e]
AuthorGroupStart(t, i, label) == SkipSpaces(t, i + Len(label))
AuthorGroupEnds(t, g) ==
    {e \in (g + 1)..Len(t) :
        /\ \A k \in (g + 1)..e : IsAlpha(t[k]) \/ IsSpace(t[k])
        /\ e = Len(t) \/ IsSpace(t[e + 1]) \/ t[e + 1] = ","}
AuthorMatchAt(t, i, label, gap_min) ==
    /\ OccursAt(t, label, i)
    /\ LET g == AuthorGroupStart(t, i, label)
       IN /\ g - (i + Len(label)) >= gap_min
          /\ g <= Len(t)
          /\ IsUpper(t[g])
          /\ AuthorGroupEnds(t, g) # {}

AuthorByPattern(t, label, gap_min) ==
    LET hits == {i \in 1..Len(t) : AuthorMatchAt(t, i, label, gap_min)}
    IN IF hits = {} THEN Null
       ELSE LET g == AuthorGroupStart(t, MinOf(hits), label)
                author == Strip(SubSeq(t, g, MinOf(AuthorGroupEnds(t, g))))
            IN IF /\ Len(author) > AUTHOR_MIN_LEN
                  /\ ~Contains(Lower(author), NOON)
                  /\ Len(author) < AUTHOR_MAX_LEN
               THEN Str(author) ELSE Null

\* NoonDetailParser._find_author(soup)
_find_author(soup) ==
    LET by_meta == AuthorByMeta(soup)
        by_elements == AuthorByElements(SelectEach(soup, author_selectors))
        by_by == AuthorByPattern(PageText(soup), <<"B", "y">>, 1)
    IN CASE by_meta # Null -> by_meta
         [] by_elements # Null -> by_elements
         [] by_by # Null -> by_by
         [] OTHER -> AuthorByPattern(PageText(soup), <<"A", "u", "t", "h", "o", "r", ":">>, 0)

valid_formats ==
    <<<<"H", "a", "r", "d", "c", "o", "v", "e", "r">>, <<"P", "a", "p", "e", "r", "b", "a", "c", "k">>, <<"e", "B", "o", "o", "k">>, <<"A", "u", "d", "i", "o", "b", "o", "o", "k">>, <<"K", "i", "n", "d", "l", "e">>, <<"P", "D", "F">>,
      <<"M", "a", "s", "s", " ", "M", "a", "r", "k", "e", "t", " ", "P", "a", "p", "e", "r", "b", "a", "c", "k">>>>
format_selectors ==
    <<SelClsNot(<<"f", "o", "r", "m", "a", "t">>, {<<"p", "r", "i", "c", "e">>, <<"d", "i", "s", "c", "o", "u", "n", "t">>}), SelClsNot(<<"F", "o", "r", "m", "a", "t">>, {<<"p", "r", "i", "c", "e">>, <<"d", "i", "s", "c", "o", "u", "n", "t">>}),
      SelQa(<<"f", "o", "r", "m", "a", "t">>), SelProp("bookFormat")>>
FORMAT == <<"f", "o", "r", "m", "a", "t">>
EDITION == <<"e", "d", "i", "t", "i", "o", "n">>
TYPE == <<"t", "y", "p", "e">>
FORMAT_MAX_LEN == 30
FORMAT_HEAD_LEN == 5

\* the first valid format named in a text: <<format>>, or <<>>
FirstValidFormatIn(text) ==
    LET hits == {k \in 1..Len(valid_formats) : Contains(Lower(text), Lower(valid_formats[k]))}
    IN IF hits = {} THEN <<>> ELSE <<valid_formats[MinOf(hits)]>>

\* strategy 1 of _find_format: a format element, read as a valid format or,
\* when it is short and does not start with digits, taken as it is
RECURSIVE FormatByElements(_)
FormatByElements(found) ==
    IF found = <<>> THEN Null
    ELSE LET text == RemoveLabel(Strip(Head(found).text), FORMAT)
             valid == FirstValidFormatIn(text)
         IN CASE valid # <<>> -> Str(valid[1])
              [] /\ Len(text) > 0
                 /\ Len(text) < FORMAT_MAX_LEN
                 /\ \A k \in 1..FORMAT_HEAD_LEN : k <= Len(text) => ~IsDigit(text[k]) -> Str(text)
              [] OTHER -> FormatByElements(Tail(found))

\* the end of the run of colons and white space that starts at i
SkipColonsAndSpaces(t, i) ==
    MinOf({k \in i..(Len(t) + 1) : k = Len(t) + 1 \/ ~(IsSpace(t[k]) \/ t[k] = ":")})

\* re.search(rf'(?:Format|Edition|Type)[:\s]*{f}|{f}(?:\s+Edition|\s+Format)', t, re.I)
FormatInContext(t, f) ==
    LET low == Lower(t)
        lf == Lower(f)
    IN \E i \in 1..Len(t) :
          \/ \E word \in {FORMAT, EDITION, TYPE} :
                /\ OccursAt(low, word, i)
                /\ OccursAt(low, lf, SkipColonsAndSpaces(t, i + Len(word)))
          \/ /\ OccursAt(low, lf, i)
             /\ i + Len(f) <= Len(t)
             /\ IsSpace(t[i + Len(f)])
             /\ \E word \in {EDITION, FORMAT} : OccursAt(low, word, SkipSpaces(t, i + Len(f)))

\* NoonDetailParser._find_format(soup)
_find_format(soup) ==
    LET by_elements == FormatByElements(SelectOneEach(soup, format_selectors))
        hits == {k \in 1..Len(valid_formats) : FormatInContext(PageText(soup), valid_formats[k])}
    IN CASE by_elements # Null -> by_elements
         [] hits # {} -> Str(valid_formats[MinOf(hits)])
         [] OTHER -> Null

date_selectors ==
    <<SelCls(<<"p", "u", "b", "l", "i", "c", "a", "t", "i", "o", "n">>), SelCls(<<"p", "u", "b", "l", "i", "s", "h">>), SelCls(<<"d", "a", "t", "e">>), SelQa(<<"d", "a", "t", "e">>),
      SelTagContains("span", <<"P", "u", "b", "l", "i", "s", "h", "e", "d">>), SelTagContains("div", <<"P", "u", "b", "l", "i", "s", "h", "e", "d">>)>>

DigitsAt(t, i, n) == i + n - 1 <= Len(t) /\ \A k \in i..(i + n - 1) : IsDigit(t[k])
CharAt(t, i, c) == i <= Len(t) /\ t[i] = c

\* the length of the match of \d{4}-\d{2}-\d{2}|\d{2}/\d{2}/\d{4}|\d{4} at i, or 0
DateLengthAt(t, i) ==
    CASE /\ DigitsAt(t, i, 4) /\ CharAt(t, i + 4, "-") /\ DigitsAt(t, i + 5, 2)
         /\ CharAt(t, i + 7, "-") /\ DigitsAt(t, i + 8, 2) -> 10
      [] /\ DigitsAt(t, i, 2) /\ CharAt(t, i + 2, "/") /\ DigitsAt(t, i + 3, 2)
         /\ CharAt(t, i + 5, "/") /\ DigitsAt(t, i + 6, 4) -> 10
      [] DigitsAt(t, i, 4) -> 4
      [] OTHER -> 0

RECURSIVE DateByElements(_)
DateByElements(found) ==
    IF found = <<>> THEN Null
    ELSE LET text == Strip(Head(found).text)
             hits == {i \in 1..Len(text) : DateLengthAt(text, i) > 0}
         IN IF hits # {}
            THEN Str(SubSeq(text, MinOf(hits), MinOf(hits) + DateLengthAt(text, MinOf(hits)) - 1))
            ELSE DateByElements(Tail(found))

\* NoonDetailParser._find_publication_date(soup)
_find_publication_date(soup) == DateByElements(SelectOneEach(soup, date_selectors))

language_selectors ==
    <<SelCls(<<"l", "a", "n", "g", "u", "a", "g", "e">>), SelCls(<<"L", "a", "n", "g", "u", "a", "g", "e">>), SelQa(<<"l", "a", "n", "g", "u", "a", "g", "e">>),
      SelTagContains("span", <<"L", "a", "n", "g", "u", "a", "g", "e">>), SelTagContains("div", <<"L", "a", "n", "g", "u", "a", "g", "e">>)>>
LANGUAGE == <<"l", "a", "n", "g", "u", "a", "g", "e">>
LANGUAGE_MIN_LEN == 2

RECURSIVE LanguageByElements(_)
LanguageByElements(found) ==
    IF found = <<>> THEN Null
    ELSE LET text == RemoveLabel(Strip(Head(found).text), LANGUAGE)
         IN IF Len(text) > LANGUAGE_MIN_LEN THEN Str(text)
            ELSE LanguageByElements(Tail(found))

\* NoonDetailParser._find_language(soup)
_find_language(soup) == LanguageByElements(SelectOneEach(soup, language_selectors))

review_selectors == <<SelCls(<<"r", "e", "v", "i", "e", "w">>), SelCls(<<"R", "e", "v", "i", "e", "w">>), SelQa(<<"r", "e", "v", "i", "e", "w">>)>>

RECURSIVE ReviewCountByElements(_)
ReviewCountByElements(found) ==
    IF found = <<>> THEN Null
    ELSE LET text == Head(found).text
             hits == {i \in 1..Len(text) : ReviewMatchAt(text, i)}
         IN IF hits # {}
            THEN Num(ParseNat(text, MinOf(hits), DigitRunEnd(text, MinOf(hits))) * Scale)
            ELSE ReviewCountByElements(Tail(found))

\* NoonDetailParser._find_review_count(soup)
Detail_find_review_count(soup) == ReviewCountByElements(SelectOneEach(soup, review_selectors))

rating_selectors ==
    <<SelCls(<<"r", "a", "t", "i", "n", "g">>), SelCls(<<"R", "a", "t", "i", "n", "g">>), SelCls(<<"s", "t", "a", "r">>), SelQa(<<"r", "a", "t", "i", "n", "g">>),
      SelProp("ratingValue")>>

\* NoonDetailParser._find_rating(soup)
Detail_find_rating(soup) == FirstRatingIn(SelectOneEach(soup, rating_selectors))

availability_selectors ==
    <<SelCls(<<"s", "t", "o", "c", "k">>), SelCls(<<"S", "t", "o", "c", "k">>), SelCls(<<"a", "v", "a", "i", "l", "a", "b", "i", "l", "i", "t", "y">>), SelQa(<<"s", "t", "o", "c", "k">>)>>

RECURSIVE AvailabilityByElements(_)
AvailabilityByElements(found) ==
    IF found = <<>> THEN Null
    ELSE LET availability == AvailabilityOfText(Lower(Head(found).text))
         IN IF availability # Null THEN availability
            ELSE AvailabilityByElements(Tail(found))

\* NoonDetailParser._find_availability(soup)
Detail_find_availability(soup) ==
    AvailabilityByElements(SelectOneEach(soup, availability_selectors))

\* ------------------------------------------------------------------ NoonDetailParser: best seller rank

BSR_PATTERNS == 5
BSR_RANK_MIN == 1
BSR_RANK_MAX == 10000000
BSR_CATEGORY_MIN_LEN == 2
BEST_SELLER == <<"b", "e", "s", "t", " ", "s", "e", "l", "l", "e", "r">>
RANK == <<"r", "a", "n", "k">>
IN_WORD == <<"i", "n">>
bsr_stopwords == {<<"t", "h", "e">>, <<"a">>, <<"a", "n">>, <<"i", "n">>, <<"o", "f">>, <<"a", "n", "d">>}

bsr_selectors ==
    <<SelCls(<<"r", "a", "n", "k">>), SelCls(<<"R", "a", "n", "k">>), SelCls(<<"b", "e", "s", "t", "s", "e", "l", "l", "e", "r">>), SelCls(<<"B", "e", "s", "t", "S", "e", "l", "l", "e", "r">>),
      SelCls(<<"B", "S", "R">>), SelQa(<<"r", "a", "n", "k">>), SelQa(<<"b", "e", "s", "t", "s", "e", "l", "l", "e", "r">>), SelProp("position")>>

\* The five patterns end alike, in  (\d+)\s+in\s+(group)(?:\s*\(|$)  with
\* re.I: patterns 1 to 4 want a '#' before the digits, patterns 2 and 3 a
\* lead ("Best Seller", "Rank") somewhere before that, and pattern 4 a group
\* that starts with a letter and holds no '#'.
BsrLead(p) == CASE p = 2 -> BEST_SELLER [] p = 3 -> RANK [] OTHER -> <<>>
BsrDigitsStart(i, p) == IF p = 5 THEN i ELSE i + 1

\* where the group of a match that starts at i starts: after the digits,
\* white space, "in" and white space
BsrGroupStart(t, i, p) ==
    LET w == SkipSpaces(t, DigitRunEnd(t, BsrDigitsStart(i, p)) + 1)
    IN SkipSpaces(t, w + Len(IN_WORD))

\* the ends of the groups that start at g: the shortest one is the match
BsrGroupEnds(t, g, p) ==
    {e \in g..Len(t) :
        /\ e = Len(t) \/ CharAt(t, SkipSpaces(t, e + 1), "(")
        /\ p = 4 => e > g /\ \A k \in (g + 1)..e : t[k] # "#"}

\* the rest of the tail of pattern p once the digits end at j, the white
\* space after them ends before w and the group starts at g
BsrTailFrom(t, p, j, w, g) ==
    /\ w > j + 1
    /\ OccursAt(Lower(t), IN_WORD, w)
    /\ g > w + Len(IN_WORD)
    /\ g <= Len(t)
    /\ p = 4 => IsAlpha(t[g])
    /\ BsrGroupEnds(t, g, p) # {}

\* the tail of pattern p matches at i (a match whose group would be white
\* space alone is left out: its category is empty, the same as no match)
BsrTailAt(t, i, p) ==
    /\ p # 5 => t[i] = "#"
    /\ BsrDigitsStart(i, p) <= Len(t)
    /\ IsDigit(t[BsrDigitsStart(i, p)])
    /\ BsrTailFrom(t, p, DigitRunEnd(t, BsrDigitsStart(i, p)),
                   SkipSpaces(t, DigitRunEnd(t, BsrDigitsStart(i, p)) + 1),
                   BsrGroupStart(t, i, p))

\* the match whose digits start at d and whose group is t[g..e]: rank,
\* category and stop, the index after the match
BsrMatch(t, d, g, e) ==
    [rank |-> Num(ParseNat(t, d, DigitRunEnd(t, d)) * Scale),
     category |-> Str(Strip(SubSeq(t, g, e))),
     stop |-> IF e = Len(t) THEN Len(t) + 1 ELSE SkipSpaces(t, e + 1) + 1]
BsrMatchIn(t, p, d, g) == BsrMatch(t, d, g, MinOf(BsrGroupEnds(t, g, p)))
BsrMatchAt(t, i, p) == BsrMatchIn(t, p, BsrDigitsStart(i, p), BsrGroupStart(t, i, p))
BsrFirstHit(t, p, hits) == IF hits = {} THEN <<>> ELSE <<BsrMatchAt(t, MinOf(hits), p)>>

\* where the tail of pattern p may start: after the first lead at or after from
BsrStart(t, from, p, leads) ==
    IF BsrLead(p) = <<>> THEN from
    ELSE IF leads = {} THEN Len(t) + 1
    ELSE MinOf(leads) + Len(BsrLead(p))

\* the first match of pattern p in t at or after index from: <<>>, or
\* <<[rank, category, stop]>>
BsrSearch(t, from, p) ==
    BsrFirstHit(t, p,
        {i \in BsrStart(t, from, p,
                   {a \in from..Len(t) : OccursAt(Lower(t), BsrLead(p), a)})..Len(t) :
            BsrTailAt(t, i, p)})

BsrValid(m) ==
    /\ BSR_RANK_MIN * Scale <= m.rank.n
    /\ m.rank.n <= BSR_RANK_MAX * Scale
    /\ Len(m.category.s) > BSR_CATEGORY_MIN_LEN

BsrDict(m) == [rank |-> m.rank, category |-> m.category]

\* x if x is not None else y
OrElse(x, y) == IF x # Null THEN x ELSE y

\* re.search of the patterns from p on in the text of one element: the first
\* pattern whose first match is valid
RECURSIVE BsrInText(_, _)
BsrValidOrNext(text, p, m) ==
    IF m # <<>> /\ BsrValid(m[1]) THEN BsrDict(m[1]) ELSE BsrInText(text, p + 1)
BsrInText(text, p) ==
    IF p > BSR_PATTERNS THEN Null ELSE BsrValidOrNext(text, p, BsrSearch(text, 1, p))

\* strategy 1 of _find_bsr: the first rank element and pattern whose first
\* match is valid
RECURSIVE BsrByElements(_)
BsrByElements(found) ==
    IF found = <<>> THEN Null
    ELSE OrElse(BsrInText(Head(found).text, 1), BsrByElements(Tail(found)))

\* re.finditer(pattern, page_text, re.I): the first valid match whose category
\* is no stop word
RECURSIVE BsrFirstValidMatch(_, _, _)
BsrAcceptOrNext(t, p, m) ==
    IF m = <<>> THEN Null
    ELSE IF BsrValid(m[1]) /\ Lower(m[1].category.s) \notin bsr_stopwords
    THEN BsrDict(m[1])
    ELSE BsrFirstValidMatch(t, m[1].stop, p)
BsrFirstValidMatch(t, from, p) == BsrAcceptOrNext(t, p, BsrSearch(t, from, p))

\* strategy 2 of _find_bsr: the patterns in order over the text of the page
RECURSIVE BsrByPatterns(_, _)
BsrByPatterns(t, p) ==
    IF p > BSR_PATTERNS THEN Null
    ELSE OrElse(BsrFirstValidMatch(t, 1, p), BsrByPatterns(t, p + 1))
BsrByPageText(soup) == BsrByPatterns(PageText(soup), 1)

\* key.lower() in str(data.keys()).lower(), for the keys of the sample documents
bsr_keys == <<"bsr", "bestSellerRank", "rank", "salesRank", "bestsellerRank">>
KeysMentioning(key) ==
    CASE key = "bsr" -> {"bsr", "BSR", "bsrCategory"}
      [] key \in {"bestSellerRank", "bestsellerRank"} ->
            {"bestSellerRank", "bestsellerRank", "bestsellerrank", "BESTSELLERRANK"}
      [] key = "rank" -> {"rank", "RANK", "bestSellerRank", "bestsellerRank",
                          "bestsellerrank", "BESTSELLERRANK", "salesRank", "salesrank",
                          "SALESRANK"}
      [] key = "salesRank" -> {"salesRank", "salesrank", "SALESRANK"}
KeyLowerUpper(key) ==
    CASE key = "bsr" -> <<"bsr", "BSR">>
      [] key \in {"bestSellerRank", "bestsellerRank"} -> <<"bestsellerrank", "BESTSELLERRANK">>
      [] key = "rank" -> <<"rank", "RANK">>
      [] key = "salesRank" -> <<"salesrank", "SALESRANK">>

UNKNOWN == <<"U", "n", "k", "n", "o", "w", "n">>

\* int(rank_value) if isinstance(rank_value, (int, str)) else None; the
\* ValueError of a str that is no integer is caught
BsrRankOf(rank_value) ==
    CASE IsInt(rank_value) -> Num(NumberOf(rank_value))
      [] IsStr(rank_value) /\ IsDigitStr(Strip(rank_value.s)) ->
            Num(ParseNat(Strip(rank_value.s), 1, Len(Strip(rank_value.s))) * Scale)
      [] OTHER -> Null

\* the BSR a dict holds under the key bsr_keys[k] or a later one
RECURSIVE BsrOfKeys(_, _)
BsrOfKeys(data, k) ==
    IF k > Len(bsr_keys) THEN Null
    ELSE LET key == bsr_keys[k]
             rank_value == OrChain(<<Get(data, key), Get(data, KeyLowerUpper(key)[1]),
                                     Get(data, KeyLowerUpper(key)[2])>>)
             rank == BsrRankOf(rank_value)
             category == GetFirst(data, <<"category", "bsrCategory", "categoryPath">>)
         IN IF /\ HasAnyKey(data, KeysMentioning(key))
               /\ Truthy(rank_value)
               /\ rank # Null
               /\ BSR_RANK_MIN * Scale <= rank.n /\ rank.n <= BSR_RANK_MAX * Scale
            THEN [rank |-> rank, category |-> IF Truthy(category) THEN category ELSE Str(UNKNOWN)]
            ELSE BsrOfKeys(data, k + 1)

\* NoonDetailParser._find_bsr_in_json(data)
RECURSIVE _find_bsr_in_json(_)
RECURSIVE BsrInItems(_)
BsrInItems(items) ==
    IF items = <<>> THEN Null
    ELSE OrElse(_find_bsr_in_json(Head(items)), BsrInItems(Tail(items)))
_find_bsr_in_json(data) ==
    CASE data.t = "obj" ->
            OrElse(BsrOfKeys(data, 1), BsrInItems([i \in 1..Len(data.kv) |-> data.kv[i].v]))
      [] data.t = "list" -> BsrInItems(data.items)
      [] OTHER -> Null

\* strategy 3 of _find_bsr: the application/json scripts
RECURSIVE BsrByScripts(_)
BsrByScripts(scripts) ==
    IF scripts = <<>> THEN Null
    ELSE IF Head(scripts).body \in {Malformed, NoString} THEN BsrByScripts(Tail(scripts))
    ELSE OrElse(_find_bsr_in_json(Head(scripts).body), BsrByScripts(Tail(scripts)))

\* NoonDetailParser._find_bsr(soup)
_find_bsr(soup) ==
    OrElse(BsrByElements(SelectEach(soup, bsr_selectors)),
           OrElse(BsrByPageText(soup),
                  BsrByScripts(SelectSeq(soup.scripts, LAMBDA sc : sc.json_type))))

\* NoonDetailParser._extract_from_html(soup): Ok(product_data), with a key for
\* every finder that returned a truthy value, or the exception of the price
\* finder
HtmlFound(soup) ==
    [title |-> _find_title(soup),
     category |-> Detail_find_category(soup),
     author |-> _find_author(soup),
     format |-> _find_format(soup),
     publication_date |-> _find_publication_date(soup),
     language |-> _find_language(soup),
     review_count |-> Detail_find_review_count(soup),
     average_rating |-> Detail_find_rating(soup),
     availability |-> Detail_find_availability(soup)]

HtmlKeys(price, bsr, found) ==
    {f \in DOMAIN found : Truthy(found[f])}
        \cup (IF Truthy(price) THEN {"price"} ELSE {})
        \cup (IF bsr # Null THEN {"bsr", "bsr_category"} ELSE {})
HtmlData(price, bsr, found) ==
    IF Raised(price) THEN Exc(price.kind)
    ELSE Ok([f \in HtmlKeys(price, bsr, found) |->
                CASE f = "price" -> price
                  [] f = "bsr" -> bsr.rank
                  [] f = "bsr_category" -> bsr.category
                  [] OTHER -> found[f]])
DetailExtractFromHtml(soup) ==
    HtmlData(_find_price_improved(soup), _find_bsr(soup), HtmlFound(soup))

\* ------------------------------------------------------------------ NoonDetailParser: enrichment
\*
\* Products live on a heap, a sequence of Product values whose indices are
\* the object identities; None is the identity 0.

None == 0

TITLE_SHORT_LEN == 15
TITLE_AMPERSAND_LEN == 30
category_titles == {<<"p", "r", "e", "-", "s", "c", "h", "o", "o", "l">>, <<"e", "a", "r", "l", "y", " ", "l", "e", "a", "r", "n", "i", "n", "g">>, <<"b", "o", "o", "k", "s">>, <<"f", "i", "c", "t", "i", "o", "n">>, <<"n", "o", "n", "-", "f", "i", "c", "t", "i", "o", "n">>}

\* the variant that lets an empty string through
IsNotNone(value) == ~IsNull(value)
\* value is not None and value != ""
HasValue(value) == ~IsNull(value) /\ ~(IsStr(value) /\ Len(value.s) = 0)

\* the variant without the ampersand test
TitleIsShortOrLabel(value) ==
    \/ Len(value) < TITLE_SHORT_LEN
    \/ Lower(value) \in category_titles
\* the title test of _enrich_product on a str:
\* len(value) < 15 or value.lower() in [...] or '&' in value and len(value) < 30
TitleLooksLikeCategory(value) ==
    \/ Len(value) < TITLE_SHORT_LEN
    \/ Lower(value) \in category_titles
    \/ Contains(value, <<"&">>) /\ Len(value) < TITLE_AMPERSAND_LEN

\* len(value) of a dict or a list
PyLen(value) == IF value.t = "obj" THEN Len(value.kv) ELSE Len(value.items)

\* the exception the title test raises on a value that is no str: len() of a
\* number is a TypeError, .lower() of a dict or a list an AttributeError
TitleTestRaises(value) ==
    CASE IsStr(value) -> "none"
      [] IsNumber(value) -> "TypeError"
      [] PyLen(value) >= TITLE_SHORT_LEN -> "AttributeError"
      [] OTHER -> "none"

\* whether the loop of _enrich_product skips the title
TitleSkipped(value) == IF IsStr(value) THEN TitleLooksLikeCategory(value.s) ELSE TRUE

\* the keys of detail_data the loop of _enrich_product writes to product_dict
KeysWritten(detail_data) ==
    {key \in DOMAIN detail_data :
        /\ HasValue(detail_data[key])
        /\ key = "title" => ~TitleSkipped(detail_data[key])}

EnrichOutcome(heap, kind, id, exc) == [heap |-> heap, kind |-> kind, id |-> id, exc |-> exc]

\* the variant that writes the fields into the existing Product and returns it
EnrichInPlace(heap, product, detail_data, now) ==
    LET written == KeysWritten(detail_data)
        updated == [key \in DOMAIN heap[product] \cup written |->
                       CASE key = "scraped_at" -> Num(now)
                         [] key \in written -> detail_data[key]
                         [] OTHER -> heap[product][key]]
        enriched == Product(updated)
    IN IF enriched = Invalid THEN EnrichOutcome(heap, "raise", None, "ValidationError")
       ELSE EnrichOutcome([heap EXCEPT ![product] = enriched], "product", product, "none")

\* NoonDetailParser._enrich_product(product, detail_data), run at time now: the
\* heap afterwards and the identity of the returned Product, or the exception
_enrich_product(heap, product, detail_data, now) ==
    LET product_dict == model_dump(heap[product])
        written == KeysWritten(detail_data)
        updated == [key \in DOMAIN product_dict \cup written |->
                       CASE key = "scraped_at" -> Num(now)
                         [] key \in written -> detail_data[key]
                         [] OTHER -> product_dict[key]]
        enriched == Product(updated)
    IN CASE "title" \in DOMAIN detail_data
               /\ HasValue(detail_data["title"])
               /\ TitleTestRaises(detail_data["title"]) # "none" ->
                 EnrichOutcome(heap, "raise", None, TitleTestRaises(detail_data["title"]))
         [] enriched = Invalid -> EnrichOutcome(heap, "raise", None, "ValidationError")
         [] OTHER -> EnrichOutcome(Append(heap, enriched), "product", Len(heap) + 1, "none")

\* Product(**product_data) of parse_product_detail, in its try block: the
\* new Product, or None when the construction raises
CreateProduct(heap, product_data) ==
    LET created == Product(product_data)
    IN IF created = Invalid THEN EnrichOutcome(heap, "none", None, "none")
       ELSE EnrichOutcome(Append(heap, created), "product", Len(heap) + 1, "none")

\* not product_data or not product_data.get('title')
JsonIncomplete(product_data) ==
    DOMAIN product_data = {} \/ ~Truthy(DictGet(product_data, "title"))

\* {**html_data, **product_data} when html_data is not empty
MergeHtmlAndJson(html_data, product_data) ==
    IF DOMAIN html_data # {} THEN DictUpdate(html_data, product_data) ELSE product_data

\* the last step of parse_product_detail: enrich the existing Product, or
\* create one when there are a title and a price
FinishDetail(heap, existing_product, product_data, now) ==
    IF existing_product # None
    THEN _enrich_product(heap, existing_product, product_data, now)
    ELSE IF /\ DOMAIN product_data # {}
            /\ Truthy(DictGet(product_data, "title"))
            /\ Truthy(DictGet(product_data, "price"))
         THEN CreateProduct(heap, product_data)
         ELSE EnrichOutcome(heap, "none", None, "none")

\* ------------------------------------------------------------------ GapAnalyzer
\*
\* Numbers are in hundredths, as the fields of a Product are: round(x, 2) of
\* a quotient is the nearest hundredth (a tie, which the float decides in
\* Python, goes to the even one), a ratio such as review_coverage is 0..100,
\* and opportunity_score 50.0 is 5000.

bestseller_keywords ==
    <<<<"g", "a", "m", "e", " ", "o", "f", " ", "t", "h", "r", "o", "n", "e", "s">>, <<"h", "a", "r", "r", "y", " ", "p", "o", "t", "t", "e", "r">>, <<"l", "o", "r", "d", " ", "o", "f", " ", "t", "h", "e", " ", "r", "i", "n", "g", "s">>,
      <<"s", "t", "e", "p", "h", "e", "n", " ", "k", "i", "n", "g">>, <<"j", ".", "k", ".", " ", "r", "o", "w", "l", "i", "n", "g">>, <<"g", "e", "o", "r", "g", "e", " ", "r", ".", "r", ".", " ", "m", "a", "r", "t", "i", "n">>,
      <<"t", "o", "l", "k", "i", "e", "n">>, <<"g", "r", "i", "s", "h", "a", "m">>, <<"b", "r", "o", "w", "n">>, <<"d", "a", "n", " ", "b", "r", "o", "w", "n">>,
      <<"b", "e", "s", "t", "s", "e", "l", "l", "e", "r">>, <<"b", "e", "s", "t", "s", "e", "l", "l", "i", "n", "g">>, <<"a", "w", "a", "r", "d", " ", "w", "i", "n", "n", "i", "n", "g">>,
      <<"n", "o", "b", "e", "l", " ", "p", "r", "i", "z", "e">>, <<"p", "u", "l", "i", "t", "z", "e", "r">>>>
max_avg_reviews == 50
max_avg_price == 200
min_products_for_demand == 3
high_competition_product_count == 30

\* round(a / n, 2) for a in hundredths
RoundDiv(a, n) ==
    CASE 2 * (a % n) < n -> a \div n
      [] 2 * (a % n) > n -> (a \div n) + 1
      [] OTHER -> IF (a \div n) % 2 = 0 THEN a \div n ELSE (a \div n) + 1

RECURSIVE SumOf(_)
SumOf(ns) == IF ns = <<>> THEN 0 ELSE Head(ns) + SumOf(Tail(ns))

MaxOf(S) == CHOOSE x \in S : \A y \in S : x >= y

\* [p.f for p in products if p.f is not None], as numbers
RECURSIVE ValuesOf(_, _)
ValuesOf(products, f) ==
    IF products = <<>> THEN <<>>
    ELSE (IF Head(products)[f] = Null THEN <<>> ELSE <<Head(products)[f].n>>)
         \o ValuesOf(Tail(products), f)

\* [p.f for p in products if p.f], as numbers
TruthyValuesOf(products, f) == SelectSeq(ValuesOf(products, f), LAMBDA n : n # 0)

RangeOf(ns) == {ns[i] : i \in 1..Len(ns)}

\* sum(ns) / len(ns) if ns else 0, rounded
AverageOf(ns) == IF ns = <<>> THEN 0 ELSE RoundDiv(SumOf(ns), Len(ns))
MaximumOf(ns) == IF ns = <<>> THEN 0 ELSE MaxOf(RangeOf(ns))
MinimumOf(ns) == IF ns = <<>> THEN 0 ELSE MinOf(RangeOf(ns))

\* len([p for p in products if test(p)])
CountWhere(products, Test(_)) == Len(SelectSeq(products, Test))

\* len(set(p.author for p in products if p.author))
UniqueAuthors(products) ==
    Cardinality({products[i].author : i \in {k \in 1..Len(products) : Truthy(products[k].author)}})

AvailabilityCount(products, text) ==
    CountWhere(products, LAMBDA p : p.availability = Str(text))

HIGH_DISCOUNT == 50

\* GapAnalyzer._calculate_metrics(products), for a list that is not empty
_calculate_metrics(products) ==
    [total_products |-> Len(products),
     avg_reviews |-> AverageOf(ValuesOf(products, "review_count")),
     max_reviews |-> MaximumOf(ValuesOf(products, "review_count")),
     products_with_reviews |-> Len(ValuesOf(products, "review_count")),
     review_coverage |-> RoundDiv(Len(ValuesOf(products, "review_count")) * Scale, Len(products)),
     avg_rating |-> AverageOf(ValuesOf(products, "average_rating")),
     max_rating |-> MaximumOf(ValuesOf(products, "average_rating")),
     avg_price |-> AverageOf(TruthyValuesOf(products, "price")),
     min_price |-> MinimumOf(TruthyValuesOf(products, "price")),
     max_price |-> MaximumOf(TruthyValuesOf(products, "price")),
     price_range |-> MaximumOf(TruthyValuesOf(products, "price"))
                       - MinimumOf(TruthyValuesOf(products, "price")),
     avg_discount |-> AverageOf(ValuesOf(products, "discount_percentage")),
     max_discount |-> MaximumOf(ValuesOf(products, "discount_percentage")),
     high_discount_rate |->
         RoundDiv(Len(SelectSeq(ValuesOf(products, "discount_percentage"),
                                LAMBDA d : d > HIGH_DISCOUNT * Scale)) * Scale, Len(products)),
     unique_authors |-> UniqueAuthors(products),
     author_diversity |-> RoundDiv(UniqueAuthors(products) * Scale, Len(products)),
     availability |->
         [in_stock |-> AvailabilityCount(products, <<"I", "n", " ", "S", "t", "o", "c", "k">>),
          low_stock |-> AvailabilityCount(products, <<"L", "o", "w", " ", "S", "t", "o", "c", "k">>),
          out_of_stock |-> AvailabilityCount(products, <<"O", "u", "t", " ", "o", "f", " ", "S", "t", "o", "c", "k">>)]]

\* any(keyword in text.lower() for keyword in self.bestseller_keywords)
HasKeyword(text) ==
    \E k \in 1..Len(bestseller_keywords) : Contains(Lower(text), bestseller_keywords[k])

\* GapAnalyzer._has_bestsellers(products)
_has_bestsellers(products) ==
    \E i \in 1..Len(products) :
        \/ HasKeyword(products[i].title.s)
        \/ products[i].author # Null /\ HasKeyword(products[i].author.s)

\* GapAnalyzer._assess_competition(metrics, product_count)
_assess_competition(metrics, product_count) ==
    CASE product_count > high_competition_product_count -> "high"
      [] metrics.avg_reviews > max_avg_reviews * Scale -> "high"
      [] metrics.max_reviews > 200 * Scale -> "high"
      [] metrics.avg_rating > 450 /\ metrics.avg_reviews > 20 * Scale -> "high"
      [] metrics.high_discount_rate > 50 -> "high"
      [] metrics.avg_price < 10 * Scale /\ product_count > 10 -> "high"
      [] metrics.avg_reviews < 5 * Scale /\ metrics.max_reviews < 20 * Scale -> "low"
      [] product_count < 5 -> "low"
      [] OTHER -> "medium"

\* GapAnalyzer._assess_demand(metrics, product_count); low_stock_ratio > 0.3
\* is 10 * low_stock > 3 * product_count
_assess_demand(metrics, product_count) ==
    CASE product_count >= 20 -> "high"
      [] product_count >= min_products_for_demand ->
            IF 10 * metrics.availability.low_stock > 3 * product_count THEN "high" ELSE "medium"
      [] OTHER -> "low"

\* the steps of _assess_kdp_viability, in thousandths
PricePenalty(avg_price) ==
    CASE avg_price > max_avg_price * Scale -> 400
      [] avg_price > 150 * Scale -> 200
      [] avg_price > 100 * Scale -> 100
      [] OTHER -> 0
PriceReward(avg_price) == IF 15 * Scale <= avg_price /\ avg_price <= 80 * Scale THEN 150 ELSE 0
DiscountPenalty(rate) == CASE rate > 60 -> 200 [] rate > 40 -> 100 [] OTHER -> 0
DiscountReward(rate) == IF 10 <= rate /\ rate <= 30 THEN 100 ELSE 0
CoverageReward(coverage) == IF coverage < 30 THEN 100 ELSE 0
LowPricePenalty(avg_price) == IF avg_price < 5 * Scale THEN 150 ELSE 0
Clamp(lo, hi, x) == IF x < lo THEN lo ELSE IF x > hi THEN hi ELSE x

\* the viability sum returned as it is, outside 0..1
AssessViabilityUnclamped(metrics) ==
    1000 - PricePenalty(metrics.avg_price) + PriceReward(metrics.avg_price)
         + 2 * metrics.author_diversity
         - DiscountPenalty(metrics.high_discount_rate)
         + DiscountReward(metrics.high_discount_rate)
         + CoverageReward(metrics.review_coverage)
         - LowPricePenalty(metrics.avg_price)

\* GapAnalyzer._assess_kdp_viability(metrics): 0..1000 for 0..1
_assess_kdp_viability(metrics) ==
    Clamp(0, 1000,
          1000 - PricePenalty(metrics.avg_price) + PriceReward(metrics.avg_price)
               + 2 * metrics.author_diversity
               - DiscountPenalty(metrics.high_discount_rate)
               + DiscountReward(metrics.high_discount_rate)
               + CoverageReward(metrics.review_coverage)
               - LowPricePenalty(metrics.avg_price))

\* demand_scores and competition_scores, in hundredths
DemandScore(demand) == CASE demand = "low" -> 20 [] demand = "medium" -> 60 [] demand = "high" -> 100
CompetitionScore(competition) ==
    CASE competition = "low" -> 100 [] competition = "medium" -> 60 [] competition = "high" -> 20

\* GapAnalyzer._calculate_opportunity_score(demand, competition, viability):
\* round((0.35 d + 0.45 c + 0.20 v) * 100, 2), in hundredths of a point
_calculate_opportunity_score(demand, competition, viability) ==
    35 * DemandScore(demand) + 45 * CompetitionScore(competition) + 2 * viability

\* GapAnalyzer._make_recommendation(score, ...): the action and the status
_make_recommendation(score) ==
    CASE score >= 70 * Scale -> [action |-> "high_opportunity", status |-> "excellent"]
      [] score >= 50 * Scale -> [action |-> "moderate_opportunity", status |-> "good"]
      [] score >= 30 * Scale -> [action |-> "low_opportunity", status |-> "fair"]
      [] OTHER -> [action |-> "skip", status |-> "poor"]

\* the dict analyze_category returns for a scored category
ScoredAnalysis(category_path, products, metrics, demand_level, competition_level, viability, score) ==
    [category |-> category_path,
     opportunity_score |-> score,
     status |-> _make_recommendation(score).status,
     recommendation |-> _make_recommendation(score).action,
     metrics |-> metrics,
     demand_level |-> demand_level,
     competition_level |-> competition_level,
     kdp_viability |-> viability * 10,
     product_count |-> Len(products)]

AnalysisOf(category_path, products, metrics, demand_level, competition_level, viability) ==
    ScoredAnalysis(category_path, products, metrics, demand_level, competition_level, viability,
                   _calculate_opportunity_score(demand_level, competition_level, viability))

AnalysisWith(category_path, products, metrics) ==
    AnalysisOf(category_path, products, metrics,
               _assess_demand(metrics, Len(products)),
               _assess_competition(metrics, Len(products)),
               _assess_kdp_viability(metrics))

\* GapAnalyzer.analyze_category(category_path, products)
analyze_category(category_path, products) ==
    CASE products = <<>> ->
            [category |-> category_path, opportunity_score |-> 0,
             status |-> "no_products", recommendation |-> "skip"]
      [] _has_bestsellers(products) ->
            [category |-> category_path, opportunity_score |-> 0,
             status |-> "too_competitive_bestsellers", recommendation |-> "skip",
             metrics |-> _calculate_metrics(products)]
      [] OTHER -> AnalysisWith(category_path, products, _calculate_metrics(products))

\* ------------------------------------------------------------------ sample texts

TITLE_FOO == <<"F", "o", "o", " ", "B", "a", "r", " ", "B", "a", "z">>
TITLE_GATSBY == <<"T", "h", "e", " ", "G", "r", "e", "a", "t", " ", "G", "a", "t", "s", "b", "y">>
TITLE_BLANK == <<" ", " ">>
TITLE_SHORT == <<"F", "o", "o">>
PATH_P1 == <<"/", "p", "/", "1">>
PATH_P2 == <<"/", "p", "/", "2">>
PATH_P3 == <<"/", "p", "/", "3">>
URL_NOT_HTTP == <<"h", "t", "t", "p", "x">>
TEXT_AED_4599 == <<"A", "E", "D", " ", "4", "5", ".", "9", "9">>
TEXT_15000 == <<"1", "5", "0", "0", "0">>
TEXT_FREE == <<"f", "r", "e", "e">>
TEXT_NA == <<"N", "/", "A">>
TEXT_AED == <<"A", "E", "D">>
IMG_ABSOLUTE == <<"h", "t", "t", "p", "s", ":", "/", "/", "f", ".", "n", "o", "o", "n", "c", "d", "n", ".", "c", "o", "m", "/", "i", ".", "p", "n", "g">>
IMG_RELATIVE == <<"/", "i", ".", "p", "n", "g">>
TEXT_CASHBACK_THEN_OFF == <<"5", "%", " ", "c", "a", "s", "h", "b", "a", "c", "k", ",", " ", "2", "0", "%", " ", "O", "f", "f">>
TEXT_OFF == <<"2", "0", "%", " ", "O", "f", "f">>
TEXT_CASHBACK == <<"5", "%", " ", "c", "a", "s", "h", "b", "a", "c", "k">>
TEXT_OFF_150 == <<"1", "5", "0", "%", " ", "O", "f", "f">>
TEXT_FILLER == <<" ", "f", "r", "e", "e", " ", "d", "e", "l", "i", "v", "e", "r", "y", " ", "o", "n", " ", "o", "r", "d", "e", "r", "s", " ", "a", "b", "o", "v", "e", " ", "t", "h", "e", " ", "m", "i", "n", "i", "m", "u", "m", " ", "b", "a", "s", "k", "e", "t", " ", "v", "a", "l", "u", "e", " ", "t", "o", "d", "a", "y", " ">>
CLS_TITLE == <<"p", "r", "o", "d", "u", "c", "t", "-", "t", "i", "t", "l", "e">>
CLS_PRICE == <<"p", "r", "i", "c", "e">>
CLS_BADGE == <<"b", "a", "d", "g", "e">>
CLS_DISCOUNT == <<"d", "i", "s", "c", "o", "u", "n", "t", "-", "t", "a", "g">>
CLS_NONE == <<>>

\* all sequences over S of length at most n
SeqsUpTo(S, n) == UNION {[1..k -> S] : k \in 0..n}

\* ------------------------------------------------------------------ sample documents

\* a leaf element of a card
Kid(tag, cls, text) ==
    [tag |-> tag, cls |-> cls, qa |-> <<>>, itemprop |-> "", wrap |-> <<>>,
     wrap_tag |-> "div", attrs |-> {}, text |-> text, href |-> <<>>, src |-> <<>>]
LinkKid(href) ==
    [tag |-> "a", cls |-> CLS_NONE, qa |-> <<>>, itemprop |-> "", wrap |-> <<>>,
     wrap_tag |-> "div", attrs |-> {"href"}, text |-> <<>>, href |-> href, src |-> <<>>]
ImgKid(src) ==
    [tag |-> "img", cls |-> CLS_NONE, qa |-> <<>>, itemprop |-> "", wrap |-> <<>>,
     wrap_tag |-> "div", attrs |-> {"src"}, text |-> <<>>, href |-> <<>>, src |-> src]
Card(kids) == [tag |-> "div", attrs |-> << >>, kids |-> kids]

\* the candidate objects of an embedded JSON payload: every combination of a
\* title, a price, a url and one optional field, each present in several
\* shapes or absent
JsonTitles ==
    {<<>>,
     <<KV("title", Str(TITLE_FOO))>>,
     <<KV("title", Str(<<>>))>>,
     <<KV("name", Str(TITLE_BLANK))>>,
     <<KV("title", Num(5 * Scale))>>}
JsonPrices ==
    {<<>>,
     <<KV("price", Num(10 * Scale))>>,
     <<KV("price", Num(15000 * Scale))>>,
     <<KV("price", Num(-5 * Scale))>>,
     <<KV("amount", Num(0))>>,
     <<KV("price", Str(TEXT_AED_4599))>>,
     <<KV("price", Str(TEXT_15000))>>,
     <<KV("salePrice", Obj(<<KV("value", Num(4599))>>))>>,
     <<KV("price", Obj(<<KV("currency", Str(TEXT_AED))>>))>>,
     <<KV("price", Obj(<<KV("value", Str(TEXT_FREE))>>))>>}
JsonUrls ==
    {<<>>,
     <<KV("url", Str(PATH_P1))>>,
     <<KV("link", Str(SiteOrigin \o PATH_P1))>>,
     <<KV("url", Str(URL_NOT_HTTP))>>,
     <<KV("url", Num(7 * Scale))>>}
JsonOptionals ==
    {<<>>,
     <<KV("rating", Num(450))>>,
     <<KV("rating", Num(950))>>,
     <<KV("rating", Str(TEXT_NA))>>,
     <<KV("id", Num(123 * Scale))>>,
     <<KV("inStock", Bool(TRUE))>>,
     <<KV("category", Str(TEXT_AED))>>}
JsonCandidates ==
    {Obj(ti \o pr \o ur \o op) :
        ti \in JsonTitles, pr \in JsonPrices, ur \in JsonUrls, op \in JsonOptionals}

\* the product cards: every combination of a title element, a price element,
\* a link, badges and an image, each present in several shapes or absent
CardTitles ==
    {<<>>, <<Kid("h2", CLS_TITLE, TITLE_FOO)>>, <<Kid("h2", CLS_TITLE, TITLE_SHORT)>>}
CardPrices ==
    {<<>>, <<Kid("span", CLS_PRICE, TEXT_AED_4599)>>, <<Kid("span", CLS_PRICE, TEXT_15000)>>}
CardLinks == {<<>>, <<LinkKid(PATH_P1)>>, <<LinkKid(SiteOrigin \o PATH_P2)>>}
CardBadges ==
    {<<>>,
     <<Kid("span", CLS_BADGE, TEXT_CASHBACK_THEN_OFF)>>,
     <<Kid("span", CLS_DISCOUNT, TEXT_CASHBACK_THEN_OFF)>>,
     <<Kid("span", CLS_BADGE, TEXT_OFF)>>,
     <<Kid("span", CLS_DISCOUNT, TEXT_OFF)>>,
     <<Kid("span", CLS_BADGE, TEXT_CASHBACK)>>,
     <<Kid("span", CLS_DISCOUNT, TEXT_OFF_150)>>,
     <<Kid("span", CLS_BADGE, TEXT_OFF \o TEXT_FILLER \o TEXT_CASHBACK)>>,
     <<Kid("span", CLS_BADGE, TEXT_CASHBACK \o TEXT_FILLER \o TEXT_OFF)>>,
     <<Kid("span", CLS_DISCOUNT, TEXT_CASHBACK), Kid("span", CLS_DISCOUNT, TEXT_OFF)>>}
CardImages == {<<>>, <<ImgKid(IMG_ABSOLUTE)>>, <<ImgKid(IMG_RELATIVE)>>}
Cards ==
    {Card(ti \o pr \o li \o ba \o im) :
        ti \in CardTitles, pr \in CardPrices, li \in CardLinks, ba \in CardBadges,
        im \in CardImages}

ListingDoc(scripts, elements) ==
    [scripts |-> scripts, selected |-> <<elements, <<>>, <<>>, <<>>, <<>>, <<>>>>]
EmptyListing == ListingDoc(<<>>, <<>>)

\* documents with one candidate object in one application/json script
DocsOneCandidate == {ListingDoc(<<Script(TRUE, FALSE, c)>>, <<>>) : c \in JsonCandidates}

\* documents with one product card
DocsOneCard == {ListingDoc(<<>>, <<c>>) : c \in Cards}

\* documents with up to MaxDup Products in a JSON array and up to MaxDup
\* cards, over two URLs in their relative and absolute spellings
MaxDup == 2
DupCandidates ==
    {Obj(<<KV("title", Str(TITLE_FOO)), KV("price", Num(pr)), KV("url", Str(u))>>) :
        pr \in {10 * Scale, 20 * Scale}, u \in {PATH_P1, SiteOrigin \o PATH_P2}}
DupCards ==
    {Card(<<Kid("h2", CLS_TITLE, TITLE_GATSBY), Kid("span", CLS_PRICE, TEXT_AED_4599),
            LinkKid(u)>>) : u \in {PATH_P1, PATH_P2}}
DocsDup ==
    {ListingDoc(<<Script(TRUE, m, List(cs))>>, es) :
        m \in BOOLEAN, cs \in SeqsUpTo(DupCandidates, MaxDup), es \in SeqsUpTo(DupCards, MaxDup)}

\* documents whose scripts are unparseable, untyped, empty or nested
SampleScripts ==
    {Script(TRUE, FALSE, Malformed),
     Script(TRUE, FALSE, NoString),
     Script(FALSE, TRUE, Malformed),
     Script(FALSE, FALSE, Obj(<<KV("title", Str(TITLE_FOO)), KV("price", Num(10 * Scale)),
                                KV("url", Str(PATH_P1))>>)),
     Script(FALSE, TRUE, Obj(<<KV("title", Str(TITLE_FOO)), KV("price", Num(10 * Scale)),
                               KV("url", Str(PATH_P2))>>)),
     Script(TRUE, FALSE,
            Obj(<<KV("items", List(<<Obj(<<KV("name", Str(TITLE_GATSBY)),
                                           KV("price", Num(20 * Scale)),
                                           KV("url", Str(PATH_P3)),
                                           KV("seller", Obj(<<KV("name", Str(TITLE_FOO)),
                                                              KV("price", Num(10 * Scale)),
                                                              KV("url", Str(PATH_P1))>>))>>)>>))>>))}
MaxScripts == 2
DocsScripts == {ListingDoc(ss, <<>>) : ss \in SeqsUpTo(SampleScripts, MaxScripts)}

\* documents with a product card beside a script that is not valid JSON
DocsBrokenScript ==
    {ListingDoc(<<Script(TRUE, m, Malformed)>>, <<c>>) : m \in BOOLEAN, c \in DupCards}

ListingDocs == DocsOneCandidate \cup DocsOneCard \cup DocsDup \cup DocsScripts \cup DocsBrokenScript

\* ---- detail pages

TITLE_GATSBY_NOVEL == <<"T", "h", "e", " ", "G", "r", "e", "a", "t", " ", "G", "a", "t", "s", "b", "y", " ", "N", "o", "v", "e", "l">>
TITLE_FICTION_LITERATURE == <<"F", "i", "c", "t", "i", "o", "n", " ", "&", " ", "L", "i", "t", "e", "r", "a", "t", "u", "r", "e">>
TITLE_15 == <<"T", "h", "e", " ", "G", "a", "t", "s", "b", "y", " ", "B", "o", "o", "k">>
TITLE_14 == <<"G", "a", "t", "s", "b", "y", " ", "S", "t", "o", "r", "i", "e", "s">>
TITLE_AMP_30 == <<"P", "r", "i", "d", "e", " ", "&", " ", "P", "r", "e", "j", "u", "d", "i", "c", "e", ":", " ", "N", "e", "w", " ", "E", "d", "i", "t", "i", "o", "n">>
TITLE_AMP_29 == <<"P", "r", "i", "d", "e", " ", "&", " ", "P", "r", "e", "j", "u", "d", "i", "c", "e", ":", " ", "A", "n", " ", "E", "d", "i", "t", "i", "o", "n">>
TITLE_LABEL == <<"E", "a", "r", "l", "y", " ", "L", "e", "a", "r", "n", "i", "n", "g">>
TEXT_CLASSICS == <<"C", "l", "a", "s", "s", "i", "c", "s">>
TEXT_CLASSIC_FICTION == <<"C", "l", "a", "s", "s", "i", "c", " ", "F", "i", "c", "t", "i", "o", "n">>
TEXT_IN_STOCK == <<"I", "n", " ", "S", "t", "o", "c", "k">>
TEXT_RATING == <<"4", ".", "5", " ", "o", "u", "t", " ", "o", "f", " ", "5">>
TEXT_4599 == <<"4", "5", ".", "9", "9">>
TEXT_SKU == <<"S", "K", "U", "-", "1">>

\* the Products that exist before a detail page is parsed (listing results)
BaselineGatsby ==
    Product([title |-> Str(TITLE_GATSBY), price |-> Num(4599),
             product_url |-> Str(SiteOrigin \o PATH_P1), sku |-> Str(TEXT_SKU),
             image_url |-> Str(IMG_ABSOLUTE), category |-> Str(TEXT_CLASSICS),
             discount_percentage |-> Num(20 * Scale)])
BaselineBare ==
    Product([title |-> Str(TITLE_FOO), price |-> Num(10 * Scale),
             product_url |-> Str(SiteOrigin \o PATH_P2)])
InitialHeap == <<BaselineGatsby, BaselineBare>>

\* the product object of a detail page's JSON: a title, a price and one more
\* field, each in several shapes or absent
DetailJsonTitles ==
    {<<>>,
     <<KV("title", Str(TITLE_GATSBY_NOVEL))>>,
     <<KV("name", Str(TITLE_FICTION_LITERATURE))>>,
     <<KV("title", Str(TITLE_15))>>,
     <<KV("title", Str(TITLE_14))>>,
     <<KV("title", Str(TITLE_AMP_30))>>,
     <<KV("title", Str(TITLE_AMP_29))>>,
     <<KV("productName", Str(TITLE_LABEL))>>,
     <<KV("title", Str(<<>>))>>,
     <<KV("title", Num(123 * Scale))>>}
DetailJsonPrices ==
    {<<>>,
     <<KV("price", Num(4599))>>,
     <<KV("price", Num(15000 * Scale))>>,
     <<KV("price", Num(0))>>,
     <<KV("salePrice", Num(-5 * Scale))>>,
     <<KV("price", Str(TEXT_4599))>>,
     <<KV("price", Obj(<<KV("value", Str(TEXT_NA))>>))>>,
     <<KV("price", Obj(<<KV("amount", Num(30 * Scale))>>))>>,
     <<KV("price", Null)>>}
TEXT_LEATHER_BOUND == <<"L", "e", "a", "t", "h", "e", "r", " ", "B", "o", "u", "n", "d">>
DetailJsonExtras ==
    {<<>>,
     <<KV("category", Str(TEXT_CLASSIC_FICTION))>>,
     <<KV("categoryPath", Str(<<>>))>>,
     <<KV("author", Obj(<<KV("name", Str(TITLE_FOO))>>))>>,
     <<KV("rating", Str(TEXT_NA))>>,
     <<KV("rating", Num(950))>>,
     <<KV("averageRating", Str(TEXT_RATING)), KV("format", Str(TEXT_LEATHER_BOUND))>>,
     <<KV("reviews", Num(120 * Scale)), KV("inStock", Bool(FALSE))>>,
     <<KV("availability", Null), KV("lang", Str(<<>>))>>}
DetailJsonObjects ==
    {Obj(t \o pr \o x) : t \in DetailJsonTitles, pr \in DetailJsonPrices, x \in DetailJsonExtras}

DetailKid(tag, cls, text) == Kid(tag, cls, text)
NoMetas == [k \in {} |-> <<>>]
DetailPages ==
    {DetailDoc(<<>>, <<>>, NoMetas, <<>>),
     DetailDoc(<<>>, <<DetailKid("h1", <<"p", "r", "o", "d", "u", "c", "t", "-", "t", "i", "t", "l", "e">>, TITLE_GATSBY_NOVEL),
                       DetailKid("span", <<"c", "a", "t", "e", "g", "o", "r", "y">>, TEXT_CLASSIC_FICTION),
                       DetailKid("span", <<"r", "a", "t", "i", "n", "g">>, TEXT_RATING),
                       DetailKid("span", <<"s", "t", "o", "c", "k">>, TEXT_IN_STOCK)>>, NoMetas, <<>>),
     DetailDoc(<<>>, <<DetailKid("h1", CLS_NONE, TITLE_GATSBY_NOVEL),
                       DetailKid("span", <<"p", "r", "i", "c", "e">>, TEXT_AED_4599)>>, NoMetas, <<>>),
     DetailDoc(<<>>, <<>>, [k \in {"og:title", "product:price:amount"} |->
                              IF k = "og:title" THEN TITLE_GATSBY_NOVEL ELSE TEXT_4599], <<>>),
     DetailDoc(<<>>, <<DetailKid("h1", CLS_NONE, TITLE_FICTION_LITERATURE)>>, NoMetas, <<>>)}

WithScripts(page, scripts) == [page EXCEPT !.scripts = scripts]

\* the detail documents: every page, without JSON, with one product object in
\* an application/json script, and with a second script after it
DetailDocs ==
    DetailPages
    \cup {WithScripts(page, <<Script(TRUE, FALSE, o)>>) : page \in DetailPages, o \in DetailJsonObjects}
    \cup {WithScripts(page, <<Script(TRUE, FALSE, Obj(<<KV("title", Str(TITLE_GATSBY_NOVEL))>>)), sc>>) :
             page \in DetailPages, sc \in SampleScripts}

MaxClock == 2

\* ------------------------------------------------------------------ the state machine
\*
\* The engine is single-threaded: one operation runs at a time, from its call
\* to its return.

\* ---- the Orchestrator object and the locals of run_full_analysis

NoStats ==
    [categories_scraped |-> 0, categories_analyzed |-> 0, categories_enriched |-> 0,
     opportunities_found |-> 0, errors |-> 0]

\* Orchestrator.__init__(enrich_threshold, max_products_per_category,
\* enrich_with_details); its CategoryScraper is built with enrich_with_details False
Orchestrator(enrich_threshold, max_products_per_category, enrich_with_details) ==
    [enrich_threshold |-> enrich_threshold,
     max_products |-> max_products_per_category,
     enrich_with_details |-> enrich_with_details,
     scraped_results |-> [k \in {} |-> <<>>],
     opportunities |-> <<>>,
     stats |-> NoStats]

DEFAULT_ENRICH_THRESHOLD == 50
NoConfig == [subcategories |-> <<>>, skip_threshold |-> 0, max_products |-> 0]
NoCategory == [outcome |-> "none"]

InitOrch ==
    /\ or_self = Orchestrator(DEFAULT_ENRICH_THRESHOLD * Scale, None, TRUE)
    /\ or_config = NoConfig
    /\ or_i = 0
    /\ or_scrape = Null
    /\ or_last = NoCategory
    /\ or_log = <<>>
    /\ or_result = Null
    /\ or_runs = 0
    /\ or_pc = "idle"

AllIdle == dd_pc = "idle" /\ ls_pc = "idle" /\ dt_pc = "idle" /\ fn_pc = "idle" /\ or_pc = "idle"

InitDedup == dd_products = <<>> /\ dd_result = <<>> /\ dd_pc = "idle"
InitListing ==
    /\ ls_doc = EmptyListing /\ ls_products = <<>> /\ ls_result = <<>> /\ ls_pc = "idle"
    /\ ls_now = ImportTime
NoOutcome == [kind |-> "pending", id |-> None, exc |-> "none"]
InitDetail ==
    /\ dt_doc = DetailDoc(<<>>, <<>>, NoMetas, <<>>)
    /\ dt_heap = InitialHeap
    /\ dt_existing = None
    /\ dt_before = Null
    /\ dt_now = ImportTime
    /\ dt_json = Ok(EmptyDict)
    /\ dt_html = Ok(EmptyDict)
    /\ dt_data = EmptyDict
    /\ dt_result = NoOutcome
    /\ dt_pc = "idle"
InitField == fn_name = "none" /\ fn_arg = Null /\ fn_ret = Null /\ fn_pc = "idle"
NoRun == [kind |-> "none"]
InitRerun == rr_first = NoRun

Init == InitDedup /\ InitListing /\ InitDetail /\ InitField /\ InitRerun /\ InitOrch

\* ---- the deduplicator called on its own

MaxProducts == 3
DedupUrls == {SiteOrigin \o PATH_P1, SiteOrigin \o PATH_P2, SiteOrigin \o PATH_P3}
DedupPrices == {10 * Scale, 20 * Scale}

DedupProducts ==
    {Product([title |-> Str(TITLE_FOO), price |-> Num(pr), product_url |-> Str(u)]) :
        pr \in DedupPrices, u \in DedupUrls}

RemoveDuplicatesCall ==
    /\ AllIdle
    /\ dd_products' \in SeqsUpTo(DedupProducts, MaxProducts)
    /\ dd_pc' = "call"
    /\ UNCHANGED <<dd_result, listingVars, detailVars, fieldVars, rerunVars, orchVars>>

RemoveDuplicatesRun ==
    /\ dd_pc = "call"
    /\ dd_result' = _remove_duplicates(dd_products)
    /\ dd_pc' = "done"
    /\ UNCHANGED <<dd_products, listingVars, detailVars, fieldVars, rerunVars, orchVars>>

RemoveDuplicatesReturn ==
    /\ dd_pc = "done"
    /\ dd_products' = <<>> /\ dd_result' = <<>> /\ dd_pc' = "idle"
    /\ UNCHANGED <<listingVars, detailVars, fieldVars, rerunVars, orchVars>>

NextDedup == RemoveDuplicatesCall \/ RemoveDuplicatesRun \/ RemoveDuplicatesReturn

SpecDedup == Init /\ [][NextDedup]_vars

\* ---- parse_search_results

ParseSearchResultsCall ==
    /\ AllIdle
    /\ ls_doc' \in ListingDocs
    /\ ls_now' \in 1..MaxClock
    /\ ls_pc' = "json"
    /\ UNCHANGED <<ls_products, ls_result, dedupVars, detailVars, fieldVars, rerunVars, orchVars>>

\* Strategy 1: products.extend(self._extract_from_json(soup))
ParseSearchResultsJson ==
    /\ ls_pc = "json"
    /\ ls_products' = ls_products \o ListingExtractFromJson(ls_doc)
    /\ ls_pc' = "html"
    /\ UNCHANGED <<ls_doc, ls_result, ls_now, dedupVars, detailVars, fieldVars, rerunVars, orchVars>>

\* the variant of strategy 2 that puts the Products of the cards in front
ParseSearchResultsHtmlInFront ==
    /\ ls_pc = "html"
    /\ ls_products' = ListingExtractFromHtml(ls_doc) \o ls_products
    /\ ls_pc' = "dedup"
    /\ UNCHANGED <<ls_doc, ls_result, ls_now, dedupVars, detailVars, fieldVars, rerunVars, orchVars>>

\* Strategy 2: products.extend(self._extract_from_html(soup))
ParseSearchResultsHtml ==
    /\ ls_pc = "html"
    /\ ls_products' = ls_products \o ListingExtractFromHtml(ls_doc)
    /\ ls_pc' = "dedup"
    /\ UNCHANGED <<ls_doc, ls_result, ls_now, dedupVars, detailVars, fieldVars, rerunVars, orchVars>>

\* unique_products = self._remove_duplicates(products); return unique_products
ParseSearchResultsDedup ==
    /\ ls_pc = "dedup"
    /\ ls_result' = _remove_duplicates(ls_products)
    /\ ls_pc' = "done"
    /\ UNCHANGED <<ls_doc, ls_products, ls_now, dedupVars, detailVars, fieldVars, rerunVars, orchVars>>

ParseSearchResultsReturn ==
    /\ ls_pc = "done"
    /\ ls_doc' = EmptyListing /\ ls_products' = <<>> /\ ls_result' = <<>> /\ ls_pc' = "idle"
    /\ ls_now' = ImportTime
    /\ rr_first' = NoRun
    /\ UNCHANGED <<dedupVars, detailVars, fieldVars, orchVars>>

NextListing ==
    \/ ParseSearchResultsCall
    \/ ParseSearchResultsJson
    \/ ParseSearchResultsHtml
    \/ ParseSearchResultsDedup
    \/ ParseSearchResultsReturn

SpecListing == Init /\ [][NextListing]_vars

\* ---- parse_product_detail

ParseProductDetailCall ==
    /\ AllIdle
    /\ dt_doc' \in DetailDocs
    /\ dt_existing' \in {None} \cup (1..Len(dt_heap))
    /\ dt_before' = IF dt_existing' = None THEN Null ELSE dt_heap[dt_existing']
    /\ dt_now' \in 1..MaxClock
    /\ dt_pc' = "json"
    /\ UNCHANGED <<dt_heap, dt_json, dt_html, dt_data, dt_result, dedupVars, listingVars, fieldVars, rerunVars, orchVars>>

\* product_data = self._extract_from_json(soup), and the test that decides
\* whether the HTML is parsed
ParseProductDetailJson ==
    /\ dt_pc = "json"
    /\ dt_json' = DetailExtractFromJson(dt_doc)
    /\ IF dt_json'.exc # "none"
       THEN /\ dt_result' = [kind |-> "raise", id |-> None, exc |-> dt_json'.exc]
            /\ dt_pc' = "done"
            /\ UNCHANGED dt_data
       ELSE /\ dt_data' = dt_json'.d
            /\ dt_pc' = IF JsonIncomplete(dt_json'.d) THEN "html" ELSE "finish"
            /\ UNCHANGED dt_result
    /\ UNCHANGED <<dt_doc, dt_heap, dt_existing, dt_before, dt_now, dt_html, dedupVars, listingVars, fieldVars, rerunVars, orchVars>>

\* html_data = self._extract_from_html(soup), merged under the JSON data
ParseProductDetailHtml ==
    /\ dt_pc = "html"
    /\ dt_html' = DetailExtractFromHtml(dt_doc)
    /\ IF dt_html'.exc # "none"
       THEN /\ dt_result' = [kind |-> "raise", id |-> None, exc |-> dt_html'.exc]
            /\ dt_pc' = "done"
            /\ UNCHANGED dt_data
       ELSE /\ dt_data' = MergeHtmlAndJson(dt_html'.d, dt_data)
            /\ dt_pc' = "finish"
            /\ UNCHANGED dt_result
    /\ UNCHANGED <<dt_doc, dt_heap, dt_existing, dt_before, dt_now, dt_json, dedupVars, listingVars, fieldVars, rerunVars, orchVars>>

\* enrich the existing Product, or create a new one
ParseProductDetailFinish ==
    /\ dt_pc = "finish"
    /\ LET outcome == FinishDetail(dt_heap, dt_existing, dt_data, dt_now)
       IN /\ dt_heap' = outcome.heap
          /\ dt_result' = [kind |-> outcome.kind, id |-> outcome.id, exc |-> outcome.exc]
    /\ dt_pc' = "done"
    /\ UNCHANGED <<dt_doc, dt_existing, dt_before, dt_now, dt_json, dt_html, dt_data, dedupVars, listingVars, fieldVars, rerunVars, orchVars>>

\* the caller is done with the outcome; the Product made by the call is dropped
ParseProductDetailReturn ==
    /\ dt_pc = "done"
    /\ dt_doc' = DetailDoc(<<>>, <<>>, NoMetas, <<>>)
    /\ dt_heap' = InitialHeap
    /\ dt_existing' = None
    /\ dt_before' = Null
    /\ dt_now' = ImportTime
    /\ dt_json' = Ok(EmptyDict)
    /\ dt_html' = Ok(EmptyDict)
    /\ dt_data' = EmptyDict
    /\ dt_result' = NoOutcome
    /\ dt_pc' = "idle"
    /\ rr_first' = NoRun
    /\ UNCHANGED <<dedupVars, listingVars, fieldVars, orchVars>>

NextDetail ==
    \/ ParseProductDetailCall
    \/ ParseProductDetailJson
    \/ ParseProductDetailHtml
    \/ ParseProductDetailFinish
    \/ ParseProductDetailReturn

SpecDetail == Init /\ [][NextDetail]_vars

\* ---- the field methods called on their own

FieldReturn ==
    /\ fn_pc = "done"
    /\ fn_name' = "none" /\ fn_arg' = Null /\ fn_ret' = Null /\ fn_pc' = "idle"
    /\ UNCHANGED <<dedupVars, listingVars, detailVars, rerunVars, orchVars>>

\* the texts of prices: an optional currency, an integer part and an optional
\* fraction after a point or a comma
PricePrefixes == {<<>>, <<"A", "E", "D", " ">>}
PriceIntegers ==
    {<<"0">>, <<"1">>, <<"4", "5">>, <<"9", "9", "9", "9">>, <<"1", "0", "0", "0", "0">>,
     <<"1", "0", "0", "0", "1">>, <<"1", "5", "0", "0", "0">>}
PriceFractions ==
    {<<>>, <<".", "0", "0">>, <<".", "5", "0">>, <<".", "9", "9">>, <<",", "9", "9">>}
PriceTexts ==
    {a \o b \o c : a \in PricePrefixes, b \in PriceIntegers, c \in PriceFractions}
        \cup {<<>>, TEXT_FREE}

ParsePriceCall ==
    /\ AllIdle
    /\ fn_name' = "_parse_price"
    /\ fn_arg' \in PriceTexts
    /\ fn_pc' = "call"
    /\ UNCHANGED <<fn_ret, dedupVars, listingVars, detailVars, rerunVars, orchVars>>

ParsePriceRun ==
    /\ fn_pc = "call" /\ fn_name = "_parse_price"
    /\ fn_ret' = _parse_price(fn_arg)
    /\ fn_pc' = "done"
    /\ UNCHANGED <<fn_name, fn_arg, dedupVars, listingVars, detailVars, rerunVars, orchVars>>

\* the texts of availability: one phrase, or two phrases in either order
AvailabilityPhrases ==
    {<<"O", "u", "t", " ", "o", "f", " ", "s", "t", "o", "c", "k">>,
     <<"C", "u", "r", "r", "e", "n", "t", "l", "y", " ", "U", "N", "A", "V", "A", "I", "L", "A", "B", "L", "E">>,
     <<"L", "o", "w", " ", "s", "t", "o", "c", "k">>,
     <<"I", "n", " ", "S", "t", "o", "c", "k">>,
     <<"o", "n", "l", "y", " ", "2", " ", "a", "v", "a", "i", "l", "a", "b", "l", "e">>,
     <<"S", "h", "i", "p", "s", " ", "s", "o", "o", "n">>}
TEXT_LOW_STOCK_2_LEFT == <<"L", "o", "w", " ", "s", "t", "o", "c", "k", " ", "-", " ", "2", " ", "l", "e", "f", "t">>
AvailabilityTexts ==
    AvailabilityPhrases
        \cup {a \o <<",", " ">> \o b : a \in AvailabilityPhrases, b \in AvailabilityPhrases}
        \cup {TEXT_LOW_STOCK_2_LEFT}
AvailabilityValues ==
    {Str(t) : t \in AvailabilityTexts} \cup {Bool(TRUE), Bool(FALSE), Null, Num(Scale)}
AvailabilityElements == {Card(<<Kid("span", <<"s", "t", "o", "c", "k">>, t)>>) : t \in AvailabilityTexts}

ExtractAvailabilityValueCall ==
    /\ AllIdle
    /\ fn_name' = "_extract_availability_value"
    /\ fn_arg' \in AvailabilityValues
    /\ fn_pc' = "call"
    /\ UNCHANGED <<fn_ret, dedupVars, listingVars, detailVars, rerunVars, orchVars>>

ExtractAvailabilityValueRun ==
    /\ fn_pc = "call" /\ fn_name = "_extract_availability_value"
    /\ fn_ret' = _extract_availability_value(fn_arg)
    /\ fn_pc' = "done"
    /\ UNCHANGED <<fn_name, fn_arg, dedupVars, listingVars, detailVars, rerunVars, orchVars>>

FindAvailabilityCall ==
    /\ AllIdle
    /\ fn_name' = "_find_availability"
    /\ fn_arg' \in AvailabilityElements
    /\ fn_pc' = "call"
    /\ UNCHANGED <<fn_ret, dedupVars, listingVars, detailVars, rerunVars, orchVars>>

FindAvailabilityRun ==
    /\ fn_pc = "call" /\ fn_name = "_find_availability"
    /\ fn_ret' = _find_availability(fn_arg)
    /\ fn_pc' = "done"
    /\ UNCHANGED <<fn_name, fn_arg, dedupVars, listingVars, detailVars, rerunVars, orchVars>>

\* the payloads of the scripts of a detail page: product-shaped objects on
\* their own, under a parent that is not product-shaped, under one that is,
\* and in lists
MinerPayloads ==
    {Obj(<<KV("title", Str(TITLE_FOO)), KV("price", Num(10 * Scale))>>),
     Obj(<<KV("props", Obj(<<KV("title", Str(TITLE_GATSBY))>>))>>),
     Obj(<<KV("title", Str(TITLE_FOO)),
           KV("offers", Obj(<<KV("price", Num(20 * Scale)), KV("name", Str(TITLE_GATSBY))>>))>>),
     List(<<Obj(<<KV("title", Str(TITLE_GATSBY))>>),
            Obj(<<KV("title", Str(TITLE_GATSBY_NOVEL)), KV("price", Num(30 * Scale))>>)>>),
     Obj(<<KV("name", Str(TITLE_GATSBY_NOVEL)),
           KV("items", List(<<Obj(<<KV("title", Str(TITLE_FOO))>>),
                              Obj(<<KV("rating", Num(450))>>)>>))>>),
     Obj(<<KV("title", Str(TITLE_GATSBY)), KV("price", Null)>>),
     Obj(<<KV("title", Str(TITLE_FOO)), KV("format", Str(TEXT_LEATHER_BOUND))>>),
     Obj(<<KV("title", Str(TITLE_FOO)), KV("bookFormat", Str(<<"p", "a", "p", "e", "r", "b", "a", "c", "k">>))>>)}
MinerScripts ==
    {Script(ty[1], ty[2], body) :
        ty \in {<<TRUE, FALSE>>, <<FALSE, TRUE>>, <<TRUE, TRUE>>}, body \in MinerPayloads}
MinerDocs ==
    {DetailDoc(scripts, <<>>, NoMetas, <<>>) : scripts \in SeqsUpTo(MinerScripts, MaxScripts)}

DetailExtractFromJsonCall ==
    /\ AllIdle
    /\ fn_name' = "_extract_from_json"
    /\ fn_arg' \in MinerDocs
    /\ fn_pc' = "call"
    /\ UNCHANGED <<fn_ret, dedupVars, listingVars, detailVars, rerunVars, orchVars>>

DetailExtractFromJsonRun ==
    /\ fn_pc = "call" /\ fn_name = "_extract_from_json"
    /\ fn_ret' = DetailExtractFromJson(fn_arg)
    /\ fn_pc' = "done"
    /\ UNCHANGED <<fn_name, fn_arg, dedupVars, listingVars, detailVars, rerunVars, orchVars>>

\* the pages the title finder is called on: a heading or two, and the
\* metadata
InSection(kid, wrap) == [kid EXCEPT !.wrap = wrap]
TitleHeadings ==
    {<<>>,
     <<Kid("h1", CLS_TITLE, TITLE_GATSBY_NOVEL)>>,
     <<Kid("h1", CLS_TITLE, <<"B", "u", "y", " ", "T", "h", "e", " ", "G", "r", "e", "a", "t", " ", "G", "a", "t", "s", "b", "y", " ", "N", "o", "v", "e", "l">>)>>,
     <<Kid("h1", CLS_NONE, <<"S", "o", "l", "d", " ", "b", "y", " ", "G", "a", "t", "s", "b", "y", " ", "B", "o", "o", "k", "s", " ", "S", "t", "o", "r", "e">>)>>,
     <<InSection(Kid("h1", CLS_NONE, <<"G", "a", "t", "s", "b", "y", " ", "B", "o", "o", "k", "s", " ", "S", "t", "o", "r", "e">>), <<"s", "e", "l", "l", "e", "r", "-", "i", "n", "f", "o">>)>>,
     <<Kid("h1", CLS_TITLE, <<"G", "a", "t", "s", "b", "y">>)>>,
     <<Kid("h1", CLS_TITLE, <<"G", "a", "t", "s", "b", "y">>), Kid("h1", CLS_NONE, <<"T", "h", "e", " ", "G", "r", "e", "a", "t", " ", "G", "a", "t", "s", "b", "y", " ", "S", "t", "o", "r", "i", "e", "s">>)>>}
TitleMetas ==
    {[metas |-> NoMetas, title_tag |-> <<>>],
     [metas |-> [k \in {"og:title"} |-> <<"T", "h", "e", " ", "G", "r", "e", "a", "t", " ", "G", "a", "t", "s", "b", "y", " ", "|", " ", "N", "o", "o", "n", " ", "U", "A", "E">>], title_tag |-> <<>>],
     [metas |-> [k \in {"og:title"} |-> <<"B", "u", "y", " ", "T", "h", "e", " ", "G", "r", "e", "a", "t", " ", "G", "a", "t", "s", "b", "y", " ", "s", "o", "l", "d", " ", "b", "y", " ", "N", "o", "o", "n">>], title_tag |-> <<>>],
     [metas |-> NoMetas, title_tag |-> <<<<"T", "h", "e", " ", "G", "r", "e", "a", "t", " ", "G", "a", "t", "s", "b", "y", " ", "S", "t", "o", "r", "i", "e", "s", " ", "|", " ", "n", "o", "o", "n">>>>],
     [metas |-> [k \in {"og:title"} |-> <<"N", "o", "o", "n">>], title_tag |-> <<<<"T", "h", "e", " ", "G", "r", "e", "a", "t", " ", "G", "a", "t", "s", "b", "y", " ", "S", "t", "o", "r", "i", "e", "s">>>>]}
TitlePages ==
    {DetailDoc(<<>>, kids, m.metas, m.title_tag) : kids \in TitleHeadings, m \in TitleMetas}

FindTitleCall ==
    /\ AllIdle
    /\ fn_name' = "_find_title"
    /\ fn_arg' \in TitlePages
    /\ fn_pc' = "call"
    /\ UNCHANGED <<fn_ret, dedupVars, listingVars, detailVars, rerunVars, orchVars>>

FindTitleRun ==
    /\ fn_pc = "call" /\ fn_name = "_find_title"
    /\ fn_ret' = _find_title(fn_arg)
    /\ fn_pc' = "done"
    /\ UNCHANGED <<fn_name, fn_arg, dedupVars, listingVars, detailVars, rerunVars, orchVars>>


\* the pages the price finder is called on
PriceMarkups ==
    {<<>>,
     <<Kid("span", <<"s", "a", "l", "e", "-", "p", "r", "i", "c", "e">>, TEXT_AED_4599)>>,
     <<Kid("span", CLS_PRICE, TEXT_FREE)>>,
     <<Kid("span", <<"p", "r", "i", "c", "e", "-", "w", "a", "s">>, <<"W", "a", "s", " ", "A", "E", "D", " ", "6", "0", ".", "0", "0">>)>>}
PriceMetas ==
    {NoMetas,
     [k \in {"product:price:amount"} |-> TEXT_4599],
     [k \in {"product:price:amount"} |-> TEXT_15000],
     [k \in {"product:price:amount"} |-> TEXT_NA]}
PricePages == {DetailDoc(<<>>, kids, metas, <<>>) : kids \in PriceMarkups, metas \in PriceMetas}

FindPriceImprovedCall ==
    /\ AllIdle
    /\ fn_name' = "_find_price_improved"
    /\ fn_arg' \in PricePages
    /\ fn_pc' = "call"
    /\ UNCHANGED <<fn_ret, dedupVars, listingVars, detailVars, rerunVars, orchVars>>

FindPriceImprovedRun ==
    /\ fn_pc = "call" /\ fn_name = "_find_price_improved"
    /\ fn_ret' = _find_price_improved(fn_arg)
    /\ fn_pc' = "done"
    /\ UNCHANGED <<fn_name, fn_arg, dedupVars, listingVars, detailVars, rerunVars, orchVars>>


\* the pages the rating finder is called on: up to two rating elements
RatingElements ==
    {Kid("span", <<"r", "a", "t", "i", "n", "g">>, <<"N", "o", " ", "r", "a", "t", "i", "n", "g", "s", " ", "y", "e", "t">>),
     Kid("span", <<"r", "a", "t", "i", "n", "g", "-", "s", "c", "o", "r", "e">>, <<"9", ".", "5", " ", "s", "c", "o", "r", "e">>),
     Kid("span", <<"s", "t", "a", "r">>, TEXT_RATING),
     [Kid("span", CLS_NONE, <<"3">>) EXCEPT !.qa = <<"r", "a", "t", "i", "n", "g">>]}
MaxRatings == 2
RatingPages ==
    {DetailDoc(<<>>, kids, NoMetas, <<>>) : kids \in SeqsUpTo(RatingElements, MaxRatings)}

DetailFindRatingCall ==
    /\ AllIdle
    /\ fn_name' = "_find_rating"
    /\ fn_arg' \in RatingPages
    /\ fn_pc' = "call"
    /\ UNCHANGED <<fn_ret, dedupVars, listingVars, detailVars, rerunVars, orchVars>>

DetailFindRatingRun ==
    /\ fn_pc = "call" /\ fn_name = "_find_rating"
    /\ fn_ret' = Detail_find_rating(fn_arg)
    /\ fn_pc' = "done"
    /\ UNCHANGED <<fn_name, fn_arg, dedupVars, listingVars, detailVars, rerunVars, orchVars>>


\* the pages the best seller rank finder is called on
TEXT_RANK_1234 == <<"#", "1", "2", "3", "4", " ", "i", "n", " ", "B", "o", "o", "k", "s", " ", ">", " ", "L", "i", "t", "e", "r", "a", "t", "u", "r", "e", " ", "&", " ", "F", "i", "c", "t", "i", "o", "n">>
TEXT_7_IN_OF == <<"7", " ", "i", "n", " ", "o", "f">>
RankMarkups ==
    {<<>>,
     <<Kid("div", <<"r", "a", "n", "k">>, TEXT_RANK_1234)>>,
     <<Kid("div", <<"r", "a", "n", "k">>, <<"#", "7", " ", "i", "n", " ", "t", "h", "e">>)>>,
     <<Kid("p", CLS_NONE, TEXT_7_IN_OF)>>,
     <<Kid("p", CLS_NONE, <<"#", "7", " ", "i", "n", " ", "t", "h", "e", " ", "(", "S", "e", "e", " ", "T", "o", "p", " ", "1", "0", "0", ")", " ", "#", "9", " ", "i", "n", " ", "C", "l", "a", "s", "s", "i", "c", "s">>)>>,
     <<Kid("div", <<"r", "a", "n", "k">>, <<"#", "0", " ", "i", "n", " ", "B", "o", "o", "k", "s">>)>>,
     <<Kid("div", <<"r", "a", "n", "k">>, <<"#", "2", "0", "0", "0", "0", "0", "0", "0", " ", "i", "n", " ", "B", "o", "o", "k", "s">>)>>,
     <<Kid("p", CLS_NONE, <<"B", "e", "s", "t", " ", "S", "e", "l", "l", "e", "r", " ", "R", "a", "n", "k", " ", "#", "5", " ", "i", "n", " ", "a", "b">>)>>}
RankPayloads ==
    {Obj(<<KV("bestSellerRank", Num(12 * Scale)), KV("category", Str(TEXT_CLASSICS))>>),
     Obj(<<KV("rank", Num(0))>>),
     Obj(<<KV("bsr", Num(5 * Scale)), KV("category", Str(<<"o", "f">>))>>),
     Obj(<<KV("props", Obj(<<KV("rank", Str(<<"3">>))>>))>>)}
RankScripts == {<<>>} \cup {<<Script(TRUE, FALSE, body)>> : body \in RankPayloads}
RankPages ==
    {DetailDoc(scripts, kids, NoMetas, <<>>) : scripts \in RankScripts, kids \in RankMarkups}

FindBsrCall ==
    /\ AllIdle
    /\ fn_name' = "_find_bsr"
    /\ fn_arg' \in RankPages
    /\ fn_pc' = "call"
    /\ UNCHANGED <<fn_ret, dedupVars, listingVars, detailVars, rerunVars, orchVars>>

FindBsrRun ==
    /\ fn_pc = "call" /\ fn_name = "_find_bsr"
    /\ fn_ret' = _find_bsr(fn_arg)
    /\ fn_pc' = "done"
    /\ UNCHANGED <<fn_name, fn_arg, dedupVars, listingVars, detailVars, rerunVars, orchVars>>


\* pages for _find_format: format elements with and without a vocabulary
\* term, and paragraphs that name a format in and out of context
FormatElements ==
    {Kid("span", <<"f", "o", "r", "m", "a", "t">>, <<"F", "o", "r", "m", "a", "t", ":", " ", "P", "a", "p", "e", "r", "b", "a", "c", "k">>),
     Kid("span", <<"f", "o", "r", "m", "a", "t">>, <<"M", "a", "s", "s", " ", "M", "a", "r", "k", "e", "t", " ", "P", "a", "p", "e", "r", "b", "a", "c", "k">>),
     Kid("span", <<"f", "o", "r", "m", "a", "t">>, TEXT_LEATHER_BOUND),
     Kid("span", <<"b", "o", "o", "k", "-", "f", "o", "r", "m", "a", "t">>, <<"H", "A", "R", "D", "C", "O", "V", "E", "R", " ", "e", "d", "i", "t", "i", "o", "n">>),
     Kid("span", <<"f", "o", "r", "m", "a", "t", "-", "n", "o", "t", "e">>, <<"2", "0", "1", "9", " ", "p", "r", "i", "n", "t", " ", "r", "u", "n", " ", "o", "f", " ", "t", "h", "e", " ", "d", "e", "l", "u", "x", "e", " ", "b", "o", "x", "e", "d", " ", "s", "e", "t">>),
     Kid("p", CLS_NONE, <<"K", "i", "n", "d", "l", "e", " ", "E", "d", "i", "t", "i", "o", "n">>),
     Kid("p", CLS_NONE, <<"A", "l", "s", "o", " ", "s", "o", "l", "d", " ", "a", "s", " ", "a", "n", " ", "a", "u", "d", "i", "o", "b", "o", "o", "k">>)}
MaxFormats == 2
FormatPages ==
    {DetailDoc(<<>>, kids, NoMetas, <<>>) : kids \in SeqsUpTo(FormatElements, MaxFormats)}

FindFormatCall ==
    /\ AllIdle
    /\ fn_name' = "_find_format"
    /\ fn_arg' \in FormatPages
    /\ fn_pc' = "call"
    /\ UNCHANGED <<fn_ret, dedupVars, listingVars, detailVars, rerunVars, orchVars>>

FindFormatRun ==
    /\ fn_pc = "call" /\ fn_name = "_find_format"
    /\ fn_ret' = _find_format(fn_arg)
    /\ fn_pc' = "done"
    /\ UNCHANGED <<fn_name, fn_arg, dedupVars, listingVars, detailVars, rerunVars, orchVars>>

\* the URLs _normalize_url is called on: a path with and without its leading
\* slash, absolute URLs, a relative path whose first segment starts with http
NormalizeUrls ==
    {PATH_P1, Tail(PATH_P1), PATH_P2, SiteOrigin \o PATH_P1, SiteOrigin \o PATH_P2,
     <<"h", "t", "t", "p", ":", "/", "/", "w", "w", "w", ".", "n", "o", "o", "n", ".", "c", "o", "m", "/", "p", "/", "1">>, <<"h", "t", "t", "p", "s", ":", "/", "/", "w", "w", "w", ".", "n", "o", "o", "n", ".", "c", "o", "m">>,
     <<"h", "t", "t", "p", "-", "h", "a", "n", "d", "b", "o", "o", "k", "/", "p", "/", "3">>, <<"/", "h", "t", "t", "p", "-", "h", "a", "n", "d", "b", "o", "o", "k", "/", "p", "/", "3">>, <<"h", "t", "t", "p", "x">>, <<"u", "a", "e", "-", "e", "n", "/", "p", "/", "2", "?", "r", "e", "f", "=", "1">>}

NormalizeUrlCall ==
    /\ AllIdle
    /\ fn_name' = "_normalize_url"
    /\ fn_arg' \in NormalizeUrls
    /\ fn_pc' = "call"
    /\ UNCHANGED <<fn_ret, dedupVars, listingVars, detailVars, rerunVars, orchVars>>

NormalizeUrlRun ==
    /\ fn_pc = "call" /\ fn_name = "_normalize_url"
    /\ fn_ret' = Str(_normalize_url(fn_arg))
    /\ fn_pc' = "done"
    /\ UNCHANGED <<fn_name, fn_arg, dedupVars, listingVars, detailVars, rerunVars, orchVars>>

NextFields ==
    \/ DetailExtractFromJsonCall
    \/ DetailExtractFromJsonRun
    \/ FindTitleCall
    \/ FindTitleRun
    \/ FindPriceImprovedCall
    \/ FindPriceImprovedRun
    \/ DetailFindRatingCall
    \/ DetailFindRatingRun
    \/ FindBsrCall
    \/ FindBsrRun
    \/ FindFormatCall
    \/ FindFormatRun
    \/ NormalizeUrlCall
    \/ NormalizeUrlRun
    \/ ParsePriceCall
    \/ ParsePriceRun
    \/ ExtractAvailabilityValueCall
    \/ ExtractAvailabilityValueRun
    \/ FindAvailabilityCall
    \/ FindAvailabilityRun
    \/ FieldReturn

SpecFields == Init /\ [][NextFields]_vars

\* ---- both parsers

NextParsers == NextListing \/ NextDetail

SpecParsers == Init /\ [][NextParsers]_vars

\* ---- a parser called a second time on the input of its first call

\* what the caller keeps of a call of parse_search_results
ListingOutcome(result) == [kind |-> "listing", products |-> result]

\* what the caller keeps of a call of parse_product_detail: the returned
\* Product's fields, or None, or the exception
DetailOutcome(heap, result) ==
    [kind |-> "detail", result |-> result.kind, exc |-> result.exc,
     product |-> IF result.kind = "product" THEN heap[result.id] ELSE Null]

\* parse_search_results(html) once more on the same html, no earlier than
\* the first call: products = [] anew
ParseSearchResultsAgain ==
    /\ ls_pc = "done" /\ rr_first = NoRun
    /\ rr_first' = ListingOutcome(ls_result)
    /\ ls_products' = <<>> /\ ls_result' = <<>>
    /\ ls_now' \in ls_now..MaxClock
    /\ ls_pc' = "json"
    /\ UNCHANGED <<ls_doc, dedupVars, detailVars, fieldVars, orchVars>>

\* the detail pages the detail parser is called twice on
TwiceDocs ==
    DetailPages
    \cup {WithScripts(page, <<Script(TRUE, FALSE, Obj(<<KV("title", Str(TITLE_GATSBY_NOVEL))>>)), sc>>) :
             page \in DetailPages, sc \in SampleScripts}
    \cup {WithScripts(page, <<Script(TRUE, FALSE, Obj(t \o pr))>>) :
             page \in DetailPages, t \in DetailJsonTitles, pr \in DetailJsonPrices}

\* parse_product_detail(html, existing_product) on one of these pages
ParseProductDetailCallOnPage ==
    /\ AllIdle
    /\ dt_doc' \in TwiceDocs
    /\ dt_existing' \in {None} \cup (1..Len(dt_heap))
    /\ dt_before' = IF dt_existing' = None THEN Null ELSE dt_heap[dt_existing']
    /\ dt_now' \in 1..MaxClock
    /\ dt_pc' = "json"
    /\ UNCHANGED <<dt_heap, dt_json, dt_html, dt_data, dt_result, dedupVars, listingVars, fieldVars, rerunVars, orchVars>>

\* parse_product_detail(html, existing_product) once more with the same
\* arguments, no earlier than the first call; the Product the first call
\* returned stays with the caller
ParseProductDetailAgain ==
    /\ dt_pc = "done" /\ rr_first = NoRun
    /\ rr_first' = DetailOutcome(dt_heap, dt_result)
    /\ dt_now' \in dt_now..MaxClock
    /\ dt_json' = Ok(EmptyDict) /\ dt_html' = Ok(EmptyDict) /\ dt_data' = EmptyDict
    /\ dt_result' = NoOutcome
    /\ dt_pc' = "json"
    /\ UNCHANGED <<dt_doc, dt_heap, dt_existing, dt_before, dedupVars, listingVars, fieldVars, orchVars>>

NextTwice ==
    \/ ParseSearchResultsCall
    \/ ParseSearchResultsJson
    \/ ParseSearchResultsHtml
    \/ ParseSearchResultsDedup
    \/ ParseSearchResultsAgain
    \/ ParseSearchResultsReturn
    \/ ParseProductDetailCallOnPage
    \/ ParseProductDetailJson
    \/ ParseProductDetailHtml
    \/ ParseProductDetailFinish
    \/ ParseProductDetailAgain
    \/ ParseProductDetailReturn

SpecTwice == Init /\ [][NextTwice]_vars

\* ------------------------------------------------------------------ claims

\* the index of the first Product of ps that carries url
FirstIndexOf(ps, url) == MinOf({i \in 1..Len(ps) : ps[i].product_url = url})

\* C1: the deduplicator returns exactly one Product per distinct product_url, namely
\* the first one in input order carrying that URL, unchanged in every field, and the
\* kept Products are in their original relative order.
C1_DedupFirstSeenWins ==
    dd_pc = "done" =>
        /\ \A i \in 1..Len(dd_products) :
              Cardinality({k \in 1..Len(dd_result) :
                              dd_result[k].product_url = dd_products[i].product_url}) = 1
        /\ \A k \in 1..Len(dd_result) :
              /\ \E i \in 1..Len(dd_products) :
                    dd_products[i].product_url = dd_result[k].product_url
              /\ dd_result[k] = dd_products[FirstIndexOf(dd_products, dd_result[k].product_url)]
        /\ \A k, l \in 1..Len(dd_result) :
              k < l => FirstIndexOf(dd_products, dd_result[k].product_url)
                         < FirstIndexOf(dd_products, dd_result[l].product_url)

\* two Products with the same URL, priced 10 then 20, deduplicated to the one priced 10
C1_Witness ==
    /\ dd_pc = "done"
    /\ Len(dd_products) = 2
    /\ dd_products[1].product_url = dd_products[2].product_url
    /\ dd_products[1].price = Num(10 * Scale)
    /\ dd_products[2].price = Num(20 * Scale)
    /\ Len(dd_result) = 1
    /\ dd_result[1].price = Num(10 * Scale)

\* ---- candidates of a listing document

\* every object of a JSON value, the object itself before its values
RECURSIVE AllObjects(_)
RECURSIVE AllObjectsOfItems(_)
AllObjectsOfItems(items) ==
    IF items = <<>> THEN <<>> ELSE AllObjects(Head(items)) \o AllObjectsOfItems(Tail(items))
AllObjects(data) ==
    CASE data.t = "obj" -> <<data>> \o AllObjectsOfItems([i \in 1..Len(data.kv) |-> data.kv[i].v])
      [] data.t = "list" -> AllObjectsOfItems(data.items)
      [] OTHER -> <<>>

RECURSIVE ObjectsOfScripts(_)
ObjectsOfScripts(scripts) ==
    IF scripts = <<>> THEN <<>>
    ELSE (IF Head(scripts).body \in {Malformed, NoString} THEN <<>>
          ELSE AllObjects(Head(scripts).body))
         \o ObjectsOfScripts(Tail(scripts))

JsonCandidatesOf(doc) == ObjectsOfScripts(ScriptsOfListing(doc))
CardCandidatesOf(doc) == FirstNonEmpty(doc.selected)

\* the completeness gate as the specification words it
JsonHasTitle(o) ==
    \E k \in {"title", "name", "productName", "displayName"} :
        IsStr(Get(o, k)) /\ Len(Get(o, k).s) > 0
JsonHasPrice(o) == _extract_price(o).t = "num"
JsonHasUrl(o) ==
    \E k \in {"url", "link", "productUrl", "href", "slug"} :
        IsStr(Get(o, k)) /\ Len(Get(o, k).s) > 0
JsonPassesGate(o) == JsonHasTitle(o) /\ JsonHasPrice(o) /\ JsonHasUrl(o)

CardHasTitle(c) ==
    \E i \in 1..Len(card_title_selectors) :
        LET found == SelectOne(c, card_title_selectors[i])
        IN found # <<>> /\ Len(Strip(found[1].text)) > 0
CardHasPrice(c) ==
    \/ _parse_price(GetText(c)).t = "num"
    \/ \E i \in 1..Len(c.kids) : _parse_price(Strip(c.kids[i].text)).t = "num"
CardHasUrl(c) ==
    \/ \E i \in 1..Len(c.kids) : "href" \in c.kids[i].attrs /\ Len(c.kids[i].href) > 0
    \/ \E a \in {"href", "data-url", "data-href", "data-link"} : a \in DOMAIN c.attrs
CardPassesGate(c) == CardHasTitle(c) /\ CardHasPrice(c) /\ CardHasUrl(c)

\* the number of elements of a sequence that satisfy a predicate
CountOf(seq, P(_)) == Cardinality({i \in 1..Len(seq) : P(seq[i])})

DetailReturned == dt_pc = "done" /\ dt_result.kind = "product"
Enriched == DetailReturned /\ dt_existing # None
ReturnedProduct == dt_heap[dt_result.id]

\* a field map has a value for a field
Yields(data, f) == f \in DOMAIN data /\ data[f] # Null

\* C3: every Product returned by parse_search_results or by parse_product_detail has
\* a price strictly greater than 0 and at most 10,000, whatever the shape of the raw
\* price it came from.
C3_PriceInRange ==
    /\ ls_pc = "done" =>
          \A i \in 1..Len(ls_result) :
              ls_result[i].price.n > 0 /\ ls_result[i].price.n <= PRICE_MAX * Scale
    /\ DetailReturned =>
          ReturnedProduct.price.n > 0 /\ ReturnedProduct.price.n <= PRICE_MAX * Scale

\* C4: parse_product_detail returns normally for every document, with or without an
\* existing product: a Product or None, never an exception.  (parse_search_results
\* has no step that lets an exception out.)
C4_NoExceptionReachesCaller ==
    dt_pc = "done" => dt_result.kind \in {"product", "none"}

\* C5: when the JSON-derived and the HTML-derived field maps of a detail document
\* are combined, each field of the merged candidate is the JSON value if the JSON
\* source yielded a non-null one, and otherwise the HTML value if the HTML source
\* yielded one, also when the JSON source supplied a title.
C5_MergeFieldByField ==
    (dt_pc = "finish" /\ DetailExtractFromHtml(dt_doc).exc = "none") =>
        LET json_data == dt_json.d
            html_data == DetailExtractFromHtml(dt_doc).d
        IN \A f \in FieldNames :
              CASE Yields(json_data, f) -> Yields(dt_data, f) /\ dt_data[f] = json_data[f]
                [] Yields(html_data, f) -> Yields(dt_data, f) /\ dt_data[f] = html_data[f]
                [] OTHER -> TRUE

\* C6: enrichment overwrites a baseline field only if the incoming candidate carries
\* a present (non-null, non-empty) value for it: a field whose incoming value is null
\* or the empty string, and a field the candidate does not contain (product_url, sku,
\* image_url and currency never are), has the baseline's value in the result; only
\* scraped_at changes unconditionally, to the time of the merge.
C6_EnrichOverwritesOnlyPresent ==
    Enriched =>
        /\ \A f \in FieldNames \ {"scraped_at"} :
              (f \notin DOMAIN dt_data \/ dt_data[f] = Null \/ dt_data[f] = Str(<<>>))
                  => ReturnedProduct[f] = dt_before[f]
        /\ \A f \in {"product_url", "sku", "image_url", "currency"} : f \notin DOMAIN dt_data
        /\ ReturnedProduct.scraped_at = Num(dt_now)

\* the candidate carries an empty category and a null or absent sku over a baseline
\* that has both, and the enriched Product has the baseline's category and sku and a
\* new scraped_at
C6_Witness ==
    /\ Enriched
    /\ "category" \in DOMAIN dt_data /\ dt_data["category"] = Str(<<>>)
    /\ dt_before.category = Str(TEXT_CLASSICS)
    /\ ReturnedProduct.category = Str(TEXT_CLASSICS)
    /\ ReturnedProduct.sku = Str(TEXT_SKU)
    /\ "title" \in DOMAIN dt_data /\ ReturnedProduct.title = dt_data["title"]
    /\ ReturnedProduct.scraped_at # dt_before.scraped_at

\* C7: in enrichment a present incoming title is rejected, and the baseline title
\* kept, if and only if it is shorter than 15 characters, or equals case-insensitively
\* one of pre-school, early learning, books, fiction, non-fiction, or contains '&' and
\* is shorter than 30 characters; any other present incoming title replaces the
\* baseline title.  Baseline "The Great Gatsby" with incoming "Fiction & Literature"
\* keeps "The Great Gatsby".
C7_TitleGuard ==
    (Enriched /\ "title" \in DOMAIN dt_data /\ IsStr(dt_data["title"])
              /\ Len(dt_data["title"].s) > 0) =>
        LET incoming == dt_data["title"].s
            rejected == \/ Len(incoming) < 15
                        \/ Lower(incoming) \in category_titles
                        \/ (\E i \in 1..Len(incoming) : incoming[i] = "&") /\ Len(incoming) < 30
        IN /\ rejected => ReturnedProduct.title = dt_before.title
           /\ ~rejected => ReturnedProduct.title = Str(incoming)
           /\ (dt_before.title = Str(TITLE_GATSBY) /\ incoming = TITLE_FICTION_LITERATURE)
                 => ReturnedProduct.title = Str(TITLE_GATSBY)

\* the baseline "The Great Gatsby" has been enriched with the incoming title
\* "Fiction & Literature" and the result is titled "The Great Gatsby"
C7_Witness ==
    /\ Enriched
    /\ dt_before.title = Str(TITLE_GATSBY)
    /\ "title" \in DOMAIN dt_data /\ dt_data["title"] = Str(TITLE_FICTION_LITERATURE)
    /\ ReturnedProduct.title = Str(TITLE_GATSBY)

\* C8: enrichment never mutates its baseline: when parse_product_detail(html,
\* existing_product = p) has returned, every field of p, scraped_at included, has
\* the value it had before the call, and the returned Product is another object.
C8_BaselineNotMutated ==
    (dt_pc = "done" /\ dt_existing # None) =>
        /\ dt_heap[dt_existing] = dt_before
        /\ \A p \in 1..Len(InitialHeap) : dt_heap[p] = InitialHeap[p]
        /\ dt_result.kind = "product" => dt_result.id # dt_existing

\* an enrichment has returned a Product that differs from the baseline, which is
\* as it was
C8_Witness ==
    /\ Enriched
    /\ dt_result.id # dt_existing
    /\ ReturnedProduct # dt_before
    /\ ReturnedProduct.scraped_at = Num(dt_now)
    /\ dt_heap[dt_existing].scraped_at = Num(ImportTime)

\* C9: the discount extractor returns the percentage next to a keyword
\* of {off, discount, sale} and rejects a match only when "cashback" lies within the
\* window around that same match, so that a card whose only text with a percentage
\* is "5% cashback, 20% Off" has discount 20; any discount lies in [0, 100].
C9_DiscountNextToKeyword ==
    (ls_pc = "done" /\ ls_doc \in DocsOneCard /\ Len(ls_result) = 1) =>
        LET c == CardCandidatesOf(ls_doc)[1]
            discount == ls_result[1].discount_percentage
        IN /\ discount # Null => discount.n >= 0 /\ discount.n <= DISCOUNT_MAX * Scale
           /\ (\E k \in 1..Len(c.kids) : c.kids[k].text = TEXT_CASHBACK_THEN_OFF)
                 => discount = Num(20 * Scale)

\* C10: an optional field whose raw value is unparseable or of an
\* unexpected type is absent on the Product, and the record is still produced when
\* title, price and url pass the gate.
C10_OptionalFieldNeverDropsRecord ==
    (ls_pc = "done" /\ ls_doc \in DocsOneCandidate) =>
        LET o == JsonCandidatesOf(ls_doc)[1]
            title == OrChain(<<Get(o, "title"), Get(o, "name"), Get(o, "productName"),
                               Get(o, "displayName"), Str(<<>>)>>)
        IN (/\ IsStr(title) /\ Len(title.s) > 0
            /\ JsonHasPrice(o)
            /\ _extract_url(o).t = "str" /\ IsHttpUrl(_extract_url(o).s))
           => Len(ls_result) = 1


\* the number a text of PriceTexts spells: its first decimal number, a comma
\* read as the decimal separator
NumberInText(text) ==
    IF SearchDecimal(ReplaceChar(text, ",", "."), ".") # <<>>
    THEN <<FloatOfDecimal(ReplaceChar(text, ",", "."),
                          SearchDecimal(ReplaceChar(text, ",", "."), "."))>>
    ELSE IF SearchDigits(text) # <<>> THEN <<FloatOfDigits(text, SearchDigits(text))>>
    ELSE <<>>

\* 0 < f <= 10000
InClaimedPriceRange(f) ==
    /\ f.int > 0 \/ \E d \in 1..Len(f.frac) : f.frac[d] # "0"
    /\ \/ f.int < PRICE_MAX
       \/ f.int = PRICE_MAX /\ \A d \in 1..Len(f.frac) : f.frac[d] = "0"

ParsePriceReturned == fn_pc = "done" /\ fn_name = "_parse_price"

\* C11: _parse_price returns the number of the text when that number lies in
\* (0, 10000], and None for every other text
C11_ParsePriceRange ==
    ParsePriceReturned =>
        IF NumberInText(fn_arg) # <<>> /\ InClaimedPriceRange(NumberInText(fn_arg)[1])
        THEN fn_ret = Num(Hundredths(NumberInText(fn_arg)[1]))
        ELSE fn_ret = Null

\* the mapping in the claimed order of precedence, on a lower-cased text
ClaimedAvailability(text) ==
    IF Contains(text, OUT_OF_STOCK) \/ Contains(text, UNAVAILABLE) THEN Str(LabelOutOfStock)
    ELSE IF Contains(text, LOW_STOCK) THEN Str(LabelLowStock)
    ELSE IF Contains(text, IN_STOCK) \/ Contains(text, AVAILABLE) THEN Str(LabelInStock)
    ELSE Null

\* C12: a text maps to Out of Stock, else Low Stock, else In Stock, else None,
\* by the keywords it contains in any case; true maps to In Stock and false
\* to Out of Stock
C12_AvailabilityMapping ==
    /\ (fn_pc = "done" /\ fn_name = "_extract_availability_value" /\ IsStr(fn_arg)) =>
           fn_ret = ClaimedAvailability(Lower(fn_arg.s))
    /\ (fn_pc = "done" /\ fn_name = "_extract_availability_value" /\ fn_arg.t = "bool") =>
           fn_ret = IF fn_arg.b THEN Str(LabelInStock) ELSE Str(LabelOutOfStock)
    /\ (fn_pc = "done" /\ fn_name = "_find_availability") =>
           fn_ret = ClaimedAvailability(Lower(GetText(fn_arg)))

\* the product-shaped fragments of a JSON value in depth-first order, parent
\* before children, each as the fields it sets
RECURSIVE FragmentsOf(_)
RECURSIVE FragmentsOfItems(_)
FragmentsOfItems(items) ==
    IF items = <<>> THEN <<>> ELSE FragmentsOf(Head(items)) \o FragmentsOfItems(Tail(items))
FragmentsOf(data) ==
    CASE data.t = "obj" ->
            (IF HasAnyKey(data, product_data_keys)
             THEN <<[f \in {g \in DOMAIN DetailFieldTriggers :
                               HasAnyKey(data, DetailFieldTriggers[g])} |->
                        DetailFieldValue(data, f)]>>
             ELSE <<>>)
            \o FragmentsOfItems([i \in 1..Len(data.kv) |-> data.kv[i].v])
      [] data.t = "list" -> FragmentsOfItems(data.items)
      [] OTHER -> <<>>
RECURSIVE FragmentsOfScripts(_)
FragmentsOfScripts(scripts) ==
    IF scripts = <<>> THEN <<>>
    ELSE FragmentsOf(Head(scripts).body) \o FragmentsOfScripts(Tail(scripts))

\* the candidate in which every field holds the value of the last fragment
\* that sets it
LastSetterWins(frags) ==
    [f \in UNION {DOMAIN frags[i] : i \in 1..Len(frags)} |->
        frags[CHOOSE i \in 1..Len(frags) :
                 /\ f \in DOMAIN frags[i]
                 /\ \A j \in (i + 1)..Len(frags) : f \notin DOMAIN frags[j]][f]]

\* the scripts the miner reads, in the order of the document
ScriptsInDocumentOrder(doc) == SelectSeq(doc.scripts, LAMBDA sc : sc.json_type \/ sc.mentions)
\* the scripts in the order the miner collects them: the application/json
\* scripts, then the scripts whose text mentions product, item or data
ScriptsInCollectionOrder(doc) ==
    SelectSeq(doc.scripts, LAMBDA sc : sc.json_type)
    \o SelectSeq(doc.scripts, LAMBDA sc : sc.mentions)

MinerReturned == fn_pc = "done" /\ fn_name = "_extract_from_json" /\ fn_ret.exc = "none"

StrategyOutputs(name, soup) ==
    CASE name = "_find_title" ->
            <<TitleBySelectors(SelectOneEach(soup, title_selectors)),
              TitleByHeading(Select(soup, SelTag("h1"))),
              TitleByMeta(soup)>>
      [] name = "_find_price_improved" ->
            <<FirstParsedPrice(SelectOneEach(soup, sale_price_selectors)),
              FirstParsedPrice(SelectSeq(SelectEach(soup, price_selectors),
                                         LAMBDA e : ~MarkedOriginal(e))),
              PriceByMeta(soup)>>
      [] name = "_find_rating" ->
            [i \in 1..Len(rating_selectors) |->
                FirstRatingIn(SelectOne(soup, rating_selectors[i]))]
      [] name = "_find_bsr" ->
            <<BsrByElements(SelectEach(soup, bsr_selectors)),
              BsrByPageText(soup),
              BsrByScripts(SelectSeq(soup.scripts, LAMBDA sc : sc.json_type))>>

IsValue(out) == out # Null /\ ~("t" \in DOMAIN out /\ out.t = "raise")

RECURSIVE FirstAccepted(_)
FirstAccepted(outs) ==
    IF outs = <<>> THEN Null
    ELSE IF IsValue(Head(outs)) THEN Head(outs)
    ELSE FirstAccepted(Tail(outs))

StrategyFinders == {"_find_title", "_find_price_improved", "_find_rating", "_find_bsr"}

\* C14: a finder of the HTML extractor returns the output of the first
\* strategy, in priority order, that yields a valid value; a strategy that
\* yields none does not keep the later ones from being tried
C14_FirstPassingStrategyWins ==
    (fn_pc = "done" /\ fn_name \in StrategyFinders) =>
        fn_ret = FirstAccepted(StrategyOutputs(fn_name, fn_arg))


RatingAbsentOrInRange(product) ==
    \/ product.average_rating = Null
    \/ 0 <= product.average_rating.n /\ product.average_rating.n <= RATING_MAX * Scale

\* C15: every Product returned by parse_search_results or by
\* parse_product_detail has no average_rating or one within [0, 5]
C15_RatingInRange ==
    /\ ls_pc = "done" => \A i \in 1..Len(ls_result) : RatingAbsentOrInRange(ls_result[i])
    /\ DetailReturned => RatingAbsentOrInRange(ReturnedProduct)


FindTitleReturned == fn_pc = "done" /\ fn_name = "_find_title" /\ IsStr(fn_ret)

\* C16: a title returned by _find_title, whatever strategy found it, contains
\* neither 'seller' nor 'sold by' in any case and does not start with 'buy'
C16_TitleExcludesSellerText ==
    FindTitleReturned =>
        /\ ~Contains(Lower(fn_ret.s), SELLER)
        /\ ~Contains(Lower(fn_ret.s), SOLD_BY)
        /\ ~StartsWith(Lower(fn_ret.s), BUY)

\* the labels of the format vocabulary
FormatLabels == {valid_formats[k] : k \in 1..Len(valid_formats)}

\* the label of the first vocabulary term that occurs in text, Null without one
FirstVocabularyLabel(text) ==
    IF FirstValidFormatIn(text) = <<>> THEN Null ELSE Str(FirstValidFormatIn(text)[1])

\* the format the JSON miner placed on its candidate, Null without one
MinedFormat == IF "format" \in DOMAIN fn_ret.d THEN fn_ret.d["format"] ELSE Null

\* C17: a format placed on a candidate is a label of the closed vocabulary,
\* the label of the first vocabulary term that occurs case-insensitively in
\* the examined text, and it is absent when no vocabulary term occurs: the
\* page's text for _find_format, the JSON value for the JSON miner
C17_FormatInVocabulary ==
    /\ (fn_pc = "done" /\ fn_name = "_find_format") =>
          /\ fn_ret # Null => (IsStr(fn_ret) /\ fn_ret.s \in FormatLabels)
          /\ FirstValidFormatIn(PageText(fn_arg)) = <<>> => fn_ret = Null
          /\ Len(fn_arg.kids) = 1 /\ fn_ret # Null =>
                fn_ret = FirstVocabularyLabel(fn_arg.kids[1].text)
    /\ (MinerReturned /\ MinedFormat # Null) =>
          (IsStr(MinedFormat) /\ MinedFormat.s \in FormatLabels)

FindBsrReturned == fn_pc = "done" /\ fn_name = "_find_bsr"

\* the acceptance test of the claim on a returned pair
ClaimedBsrValid(pair) ==
    /\ pair.rank.t = "num"
    /\ BSR_RANK_MIN * Scale <= pair.rank.n /\ pair.rank.n <= BSR_RANK_MAX * Scale
    /\ IsStr(pair.category)
    /\ Len(pair.category.s) > BSR_CATEGORY_MIN_LEN
    /\ Lower(pair.category.s) \notin bsr_stopwords

\* C18: _find_bsr returns a pair only with a rank in 1..10,000,000 and a
\* category longer than 2 characters that is not a stopword, whichever
\* strategy produced it; '#1234 in Books > Literature & Fiction' gives rank
\* 1234 in that category and '7 in of' gives no BSR
C18_BsrValidWhicheverStrategy ==
    FindBsrReturned =>
       /\ fn_ret # Null => ClaimedBsrValid(fn_ret)
       /\ (fn_arg.scripts = <<>> /\ Len(fn_arg.kids) = 1 /\ fn_arg.kids[1].text = TEXT_RANK_1234) =>
             fn_ret = [rank |-> Num(1234 * Scale),
                       category |-> Str(SubSeq(TEXT_RANK_1234, 10, Len(TEXT_RANK_1234)))]
       /\ (fn_arg.scripts = <<>> /\ Len(fn_arg.kids) = 1 /\ fn_arg.kids[1].text = TEXT_7_IN_OF) =>
             fn_ret = Null

\* C19: the scraped_at of a Product is the time at which it was created or
\* merged: the Products parse_search_results creates during a call carry the
\* time of that call, so that Products created at different times differ in
\* it, and an enriched Product carries the time of the merge
C19_ScrapedAtIsCreationTime ==
    /\ ls_pc = "done" => \A i \in 1..Len(ls_result) : ls_result[i].scraped_at = Num(ls_now)
    /\ Enriched => ReturnedProduct.scraped_at = Num(dt_now)

\* two Products agree in every field except scraped_at
SameButScrapedAt(p, q) == \A f \in FieldNames \ {"scraped_at"} : p[f] = q[f]

\* two calls of parse_search_results returned as many Products, in the same
\* order, pairwise alike
SameListing(first, second) ==
    /\ Len(first) = Len(second)
    /\ \A i \in 1..Len(first) : SameButScrapedAt(first[i], second[i])

\* two calls of parse_product_detail ended alike
SameDetail(first, second) ==
    /\ first.result = second.result
    /\ first.exc = second.exc
    /\ first.result = "product" => SameButScrapedAt(first.product, second.product)

C20_WitnessDetail ==
    /\ Enriched /\ rr_first.kind = "detail" /\ rr_first.result = "product"
    /\ ReturnedProduct.scraped_at # rr_first.product.scraped_at
    /\ ReturnedProduct.title # dt_before.title

\* the document without its scripts that are not valid JSON
WithoutMalformed(doc) ==
    [doc EXCEPT !.scripts = SelectSeq(@, LAMBDA sc : sc.body # Malformed)]

HasMalformed(doc) == \E i \in 1..Len(doc.scripts) : doc.scripts[i].body = Malformed

\* C21: a script payload that is not valid JSON is skipped alone: both
\* parsers extract from a document what they extract from the document
\* without that payload, from the other payloads and from the markup, and
\* the payload brings no error to the caller
C21_MalformedPayloadSkippedAlone ==
    /\ ls_pc = "done" => ls_result = parse_search_results(WithoutMalformed(ls_doc))
    /\ dt_pc \in {"html", "finish", "done"} =>
          dt_json = DetailExtractFromJson(WithoutMalformed(dt_doc))
    /\ (dt_pc \in {"finish", "done"} /\ dt_json.exc = "none" /\ JsonIncomplete(dt_json.d)) =>
          dt_html = DetailExtractFromHtml(WithoutMalformed(dt_doc))

\* parse_search_results has returned the Products of the valid payloads and
\* of the cards of a document that has a malformed payload too
C21_Witness ==
    /\ ls_pc = "done" /\ HasMalformed(ls_doc)
    /\ Len(ls_result) > 0
    /\ ls_result = ListingExtractFromJson(ls_doc) \o ListingExtractFromHtml(ls_doc)

\* parse_product_detail has returned a Product enriched from a valid payload
\* of a page that has a malformed payload too
C21_WitnessDetail ==
    /\ Enriched /\ HasMalformed(dt_doc)
    /\ "title" \in DOMAIN dt_json.d /\ ReturnedProduct.title = dt_json.d["title"]

NormalizeUrlReturned == fn_pc = "done" /\ fn_name = "_normalize_url"

\* an absolute URL: a scheme http or https and what follows it
IsAbsoluteUrl(url) == StartsWith(url, HttpPrefix) \/ StartsWith(url, HttpsPrefix)

\* the absolute spelling of a relative path: the site origin and the path
AbsoluteSpelling(path) ==
    IF StartsWith(path, <<"/">>) THEN SiteOrigin \o path ELSE SiteOrigin \o <<"/">> \o path

\* C22: _normalize_url rewrites a relative path to the absolute URL rooted
\* at https://www.noon.com and returns an absolute URL unchanged; it is
\* idempotent, and the relative and the absolute spelling of a path give the
\* same identity key
C22_NormalizeUrl ==
    NormalizeUrlReturned =>
       /\ IsAbsoluteUrl(fn_arg) => fn_ret.s = fn_arg
       /\ ~IsAbsoluteUrl(fn_arg) => fn_ret.s = AbsoluteSpelling(fn_arg)
       /\ _normalize_url(fn_ret.s) = fn_ret.s
       /\ ~IsAbsoluteUrl(fn_arg) => _normalize_url(AbsoluteSpelling(fn_arg)) = fn_ret.s

\* the URLs of a sequence of Products
UrlsOf(products) == {products[i].product_url : i \in 1..Len(products)}

\* the first Product of a sequence that has the URL
FirstWithUrl(products, url) ==
    products[MinOf({i \in 1..Len(products) : products[i].product_url = url})]

\* C30: when a product URL is found in an embedded JSON payload and in an
\* HTML card of one listing document, the one Product parse_search_results
\* returns for it is the one made from the JSON, the first of them
C30_JsonBeforeHtml ==
    ls_pc = "done" =>
        \A i \in 1..Len(ls_result) :
            ls_result[i].product_url \in UrlsOf(ListingExtractFromJson(ls_doc)) =>
                ls_result[i] = FirstWithUrl(ListingExtractFromJson(ls_doc), ls_result[i].product_url)

\* a URL found in the JSON and in a card, with different titles, has been
\* returned once, with the JSON's title
C30_Witness ==
    /\ ls_pc = "done"
    /\ \E i \in 1..Len(ls_result) :
          /\ ls_result[i].product_url \in UrlsOf(ListingExtractFromJson(ls_doc))
          /\ \E k \in 1..Len(ListingExtractFromHtml(ls_doc)) :
                /\ ListingExtractFromHtml(ls_doc)[k].product_url = ls_result[i].product_url
                /\ ListingExtractFromHtml(ls_doc)[k].title # ls_result[i].title
          /\ \A j \in 1..Len(ls_result) : j # i => ls_result[j].product_url # ls_result[i].product_url

\* ------------------------------------------------------------------ GapAnalyzer called directly
\*
\* The products of a category: plain ones, reviewed and discounted ones, a
\* cheap and a premium one, and two carrying a bestseller keyword, in lists
\* short and long enough to cross every count the analyzer compares with.
MaxCategorySize == 31
CATEGORY_PATH == <<"B", "o", "o", "k", "s", "/", "F", "i", "c", "t", "i", "o", "n">>

ProductPlain ==
    Product([title |-> Str(TITLE_FOO), price |-> Num(4599),
             product_url |-> Str(SiteOrigin \o PATH_P1)])
ProductReviewed ==
    Product([title |-> Str(TITLE_GATSBY), price |-> Num(25 * Scale),
             product_url |-> Str(SiteOrigin \o PATH_P2),
             review_count |-> Num(3 * Scale), average_rating |-> Num(400),
             author |-> Str(<<"J", "a", "n", "e", " ", "R", "o", "e">>), availability |-> Str(<<"L", "o", "w", " ", "S", "t", "o", "c", "k">>),
             discount_percentage |-> Num(20 * Scale)])
ProductPopular ==
    Product([title |-> Str(TITLE_GATSBY_NOVEL), price |-> Num(120 * Scale),
             product_url |-> Str(SiteOrigin \o PATH_P3),
             review_count |-> Num(250 * Scale), average_rating |-> Num(480),
             author |-> Str(<<"J", "o", "h", "n", " ", "D", "o", "e">>), availability |-> Str(<<"I", "n", " ", "S", "t", "o", "c", "k">>),
             discount_percentage |-> Num(60 * Scale)])
ProductCheap ==
    Product([title |-> Str(TITLE_14), price |-> Num(4 * Scale),
             product_url |-> Str(SiteOrigin \o PATH_P1),
             discount_percentage |-> Num(55 * Scale)])
ProductPremium ==
    Product([title |-> Str(TITLE_15), price |-> Num(250 * Scale),
             product_url |-> Str(SiteOrigin \o PATH_P2),
             review_count |-> Num(60 * Scale), average_rating |-> Num(350),
             discount_percentage |-> Num(70 * Scale),
             availability |-> Str(<<"O", "u", "t", " ", "o", "f", " ", "S", "t", "o", "c", "k">>)])
ProductBestsellerTitle ==
    Product([title |-> Str(<<"H", "a", "r", "r", "y", " ", "P", "o", "t", "t", "e", "r", " ", "B", "o", "x", " ", "S", "e", "t">>), price |-> Num(4599),
             product_url |-> Str(SiteOrigin \o PATH_P3)])
ProductBestsellerAuthor ==
    Product([title |-> Str(TITLE_FOO), price |-> Num(4599),
             product_url |-> Str(SiteOrigin \o PATH_P3),
             author |-> Str(<<"D", "a", "n", " ", "B", "r", "o", "w", "n">>)])

OrdinaryProducts ==
    {ProductPlain, ProductReviewed, ProductPopular, ProductCheap, ProductPremium}
BestsellerProducts == {ProductBestsellerTitle, ProductBestsellerAuthor}

Repeat(x, n) == [i \in 1..n |-> x]
RepeatLengths == {2, 3, 5, 12, 20, MaxCategorySize}

AnalyzerLists ==
    SeqsUpTo(OrdinaryProducts \cup BestsellerProducts, 2)
    \cup {Repeat(p, n) : p \in OrdinaryProducts, n \in RepeatLengths}
    \cup {Repeat(p, 2) \o Repeat(q, n) :
            p \in OrdinaryProducts \cup BestsellerProducts, q \in OrdinaryProducts, n \in {1, 3, 10}}

AnalyzeCategoryCall ==
    /\ AllIdle
    /\ fn_name' = "analyze_category"
    /\ fn_arg' \in AnalyzerLists
    /\ fn_pc' = "call"
    /\ UNCHANGED <<fn_ret, dedupVars, listingVars, detailVars, rerunVars, orchVars>>

AnalyzeCategoryRun ==
    /\ fn_pc = "call" /\ fn_name = "analyze_category"
    /\ fn_ret' = analyze_category(CATEGORY_PATH, fn_arg)
    /\ fn_pc' = "done"
    /\ UNCHANGED <<fn_name, fn_arg, dedupVars, listingVars, detailVars, rerunVars, orchVars>>

NextAnalyzer == AnalyzeCategoryCall \/ AnalyzeCategoryRun \/ FieldReturn

SpecAnalyzer == Init /\ [][NextAnalyzer]_vars

AnalyzeCategoryReturned == fn_pc = "done" /\ fn_name = "analyze_category"

\* the recommendation the score determines
RecommendationFor(score) ==
    CASE score >= 70 * Scale -> "high_opportunity"
      [] score >= 50 * Scale /\ score < 70 * Scale -> "moderate_opportunity"
      [] score >= 30 * Scale /\ score < 50 * Scale -> "low_opportunity"
      [] score < 30 * Scale -> "skip"

\* a bestseller keyword in a title or an author of the list
HasBestsellerKeyword(products) ==
    \E i \in 1..Len(products), k \in 1..Len(bestseller_keywords) :
        \/ Contains(Lower(products[i].title.s), bestseller_keywords[k])
        \/ /\ products[i].author # Null
           /\ Contains(Lower(products[i].author.s), bestseller_keywords[k])

\* C25: analyze_category returns an opportunity_score within [0, 100] and the
\* recommendation that score determines (high_opportunity from 70,
\* moderate_opportunity from 50, low_opportunity from 30, skip below); an
\* empty list and a list with a bestseller keyword in a title or an author
\* give score 0 and skip.
C25_ScoreAndRecommendation ==
    AnalyzeCategoryReturned =>
        /\ fn_ret.opportunity_score >= 0
        /\ fn_ret.opportunity_score <= 100 * Scale
        /\ fn_ret.recommendation = RecommendationFor(fn_ret.opportunity_score)
        /\ (fn_arg = <<>> \/ HasBestsellerKeyword(fn_arg)) =>
              (fn_ret.opportunity_score = 0 /\ fn_ret.recommendation = "skip")

C25_Witness ==
    /\ AnalyzeCategoryReturned
    /\ fn_arg # <<>>
    /\ ~HasBestsellerKeyword(fn_arg)
    /\ fn_ret.recommendation = "moderate_opportunity"

C25_WitnessHigh == AnalyzeCategoryReturned /\ fn_ret.recommendation = "high_opportunity"
C25_WitnessLow == AnalyzeCategoryReturned /\ fn_ret.recommendation = "low_opportunity"
C25_WitnessSkip ==
    AnalyzeCategoryReturned /\ fn_ret.recommendation = "skip" /\ fn_ret.opportunity_score > 0
C25_WitnessBestseller ==
    AnalyzeCategoryReturned /\ HasBestsellerKeyword(fn_arg) /\ fn_ret.opportunity_score = 0
C25_WitnessFull == AnalyzeCategoryReturned /\ fn_ret.opportunity_score = 100 * Scale

\* ------------------------------------------------------------------ parse_product_detail by value
\*
\* The callers of the agent layer hold Products, not heap addresses: the
\* detail parser is given one Product and answers with the Product it made.

PageOutcome(exc, product) == [exc |-> exc, product |-> product]

\* product_data after the JSON step and, when that is incomplete, the HTML step
DataAfterHtml(html_data, product_data) ==
    IF html_data.exc # "none" THEN html_data
    ELSE Ok(MergeHtmlAndJson(html_data.d, product_data))
DataAfterJson(doc, json_data) ==
    IF json_data.exc # "none" THEN json_data
    ELSE IF JsonIncomplete(json_data.d)
         THEN DataAfterHtml(DetailExtractFromHtml(doc), json_data.d)
         ELSE json_data
DetailData(doc) == DataAfterJson(doc, DetailExtractFromJson(doc))

EnrichedByValue(outcome) ==
    IF outcome.kind = "raise" THEN PageOutcome(outcome.exc, Null)
    ELSE PageOutcome("none", outcome.heap[outcome.id])
EnrichWithData(product_data, product, now) ==
    IF product_data.exc # "none" THEN PageOutcome(product_data.exc, Null)
    ELSE EnrichedByValue(FinishDetail(<<product>>, 1, product_data.d, now))

\* NoonDetailParser.parse_product_detail(html, existing_product=product)
parse_product_detail(doc, product, now) == EnrichWithData(DetailData(doc), product, now)

\* ------------------------------------------------------------------ CategoryScraper
\*
\* NoonScraper.scrape returns the text of a page or None (it catches every
\* exception): NoPage is None.  The k-th detail fetch of a call returns
\* pages[k].  A max_products of None and one of 0 take the same branches
\* (both are falsy), and None is 0 here.

NoPage == Null

\* the list as it is, whatever the limit
Unlimited(products, max_products) == products

\* products[:max_products] if max_products else products
Limited(products, max_products) ==
    IF max_products # None /\ Len(products) > max_products
    THEN SubSeq(products, 1, max_products) ELSE products

ScrapeOutcome(exc, products, fetched) == [exc |-> exc, products |-> products, fetched |-> fetched]

\* the one element of a set of one: Only({F(x) : x \in {e}}) is F(e) with e
\* evaluated once, as a local variable is
Only(S) == CHOOSE x \in S : TRUE

\* detail_html = self.scraper.scrape(url) and, when there is a page, the
\* detail parser on it: without a page the Product as it is
FetchedOne(product, page, now) ==
    IF page = NoPage THEN PageOutcome("none", product)
    ELSE parse_product_detail(page, product, now)

\* one more fetch in front of the rest of the loop
Prepended(product, rest) ==
    IF rest.exc # "none" THEN ScrapeOutcome(rest.exc, <<>>, rest.fetched + 1)
    ELSE ScrapeOutcome("none", <<product>> \o rest.products, rest.fetched + 1)

\* the enrichment loop of scrape_category: a Product whose page was not
\* fetched is kept, a parsed one is replaced by what the detail parser
\* returned, and an exception of the detail parser ends the call
RECURSIVE EnrichInCategory(_, _, _)
AfterFetch(first, products, pages, now) ==
    IF first.exc # "none" THEN ScrapeOutcome(first.exc, <<>>, 1)
    ELSE Only({Prepended(first.product, rest) :
                  rest \in {EnrichInCategory(Tail(products), Tail(pages), now)}})
EnrichInCategory(products, pages, now) ==
    IF products = <<>> THEN ScrapeOutcome("none", <<>>, 0)
    ELSE Only({AfterFetch(first, products, pages, now) :
                  first \in {FetchedOne(Head(products), Head(pages), now)}})

\* if not product.category: product.category = category
WithCategory(products, category) ==
    [i \in 1..Len(products) |->
        IF Truthy(products[i].category) THEN products[i]
        ELSE [products[i] EXCEPT !.category = Str(category)]]

\* the end of scrape_category: the limit, then the category
FinishCategory(outcome, max_products, category) ==
    IF outcome.exc # "none" THEN outcome
    ELSE ScrapeOutcome("none", WithCategory(Limited(outcome.products, max_products), category),
                       outcome.fetched)

\* scrape_category after the search results were parsed into products
ScrapeListed(products, category, max_products) ==
    IF products = <<>> THEN ScrapeOutcome("none", <<>>, 0)
    ELSE FinishCategory(ScrapeOutcome("none", products, 0), max_products, category)
ScrapeFound(products, category, max_products, enrich_with_details, pages, now) ==
    IF products # <<>> /\ enrich_with_details
    THEN Only({FinishCategory(outcome, max_products, category) :
                  outcome \in {EnrichInCategory(Limited(products, max_products), pages, now)}})
    ELSE ScrapeListed(products, category, max_products)

\* CategoryScraper.scrape_category(category, max_products), html being what
\* scrape_search returned
scrape_category(html, category, max_products, enrich_with_details, pages, now) ==
    IF html = NoPage THEN ScrapeOutcome("none", <<>>, 0)
    ELSE Only({ScrapeFound(products, category, max_products, enrich_with_details, pages, now) :
                  products \in {parse_search_results(html)}})

\* ---- scrape_category called directly

MaxFound == 3
MaxLimit == 2

CategoryCards ==
    {Card(<<Kid("h2", CLS_TITLE, TITLE_GATSBY), Kid("span", CLS_PRICE, TEXT_AED_4599), LinkKid(PATH_P1)>>),
     Card(<<Kid("h2", CLS_TITLE, TITLE_FOO), Kid("span", CLS_PRICE, TEXT_AED_4599), LinkKid(PATH_P2)>>),
     Card(<<Kid("h2", CLS_TITLE, TITLE_15), Kid("span", CLS_PRICE, TEXT_AED_4599), LinkKid(PATH_P3)>>)}

\* what scrape_search returns: nothing, or a page of up to MaxFound cards
SearchPages == {NoPage} \cup {ListingDoc(<<>>, cs) : cs \in SeqsUpTo(CategoryCards, MaxFound)}

\* what scrape returns for a detail page: nothing, a page that enriches, or
\* a page whose JSON title is a number, on which the detail parser raises
PageEnriching ==
    DetailDoc(<<>>, <<DetailKid("h1", CLS_TITLE, TITLE_GATSBY_NOVEL),
                      DetailKid("span", <<"r", "a", "t", "i", "n", "g">>, TEXT_RATING),
                      DetailKid("span", <<"s", "t", "o", "c", "k">>, TEXT_IN_STOCK)>>, NoMetas, <<>>)
PageRaising ==
    DetailDoc(<<Script(TRUE, FALSE, Obj(<<KV("title", Num(123 * Scale))>>))>>, <<>>, NoMetas, <<>>)
FetchedPages == {NoPage, PageEnriching, PageRaising}
NothingFetched == [k \in 1..MaxFound |-> NoPage]

ScrapeCategoryArgs ==
    {[html |-> h, max_products |-> m, enrich_with_details |-> e, pages |-> ps] :
        h \in SearchPages, m \in {None} \cup (1..MaxLimit), e \in BOOLEAN,
        ps \in [1..MaxFound -> FetchedPages]}

ScrapeCategoryCall ==
    /\ AllIdle
    /\ fn_name' = "scrape_category"
    /\ fn_arg' \in {a \in ScrapeCategoryArgs : a.enrich_with_details \/ a.pages = NothingFetched}
    /\ fn_pc' = "call"
    /\ UNCHANGED <<fn_ret, dedupVars, listingVars, detailVars, rerunVars, orchVars>>

ScrapeCategoryRun ==
    /\ fn_pc = "call" /\ fn_name = "scrape_category"
    /\ fn_ret' = scrape_category(fn_arg.html, CATEGORY_PATH, fn_arg.max_products, fn_arg.enrich_with_details, fn_arg.pages, MaxClock)
    /\ fn_pc' = "done"
    /\ UNCHANGED <<fn_name, fn_arg, dedupVars, listingVars, detailVars, rerunVars, orchVars>>

NextCategory == ScrapeCategoryCall \/ ScrapeCategoryRun \/ FieldReturn

SpecCategory == Init /\ [][NextCategory]_vars

ScrapeCategoryReturned ==
    fn_pc = "done" /\ fn_name = "scrape_category" /\ fn_ret.exc = "none"

\* the products found in the search results of the call
FoundProducts == IF fn_arg.html = NoPage THEN <<>> ELSE parse_search_results(fn_arg.html)

\* C24: scrape_category with a positive max_products returns at most
\* max_products Products and fetches at most max_products detail pages;
\* with max_products None it returns all the products found, one per found
\* product in the same order and with the same product_url.
C24_MaxProducts ==
    /\ (fn_pc = "done" /\ fn_name = "scrape_category" /\ fn_arg.max_products # None) =>
          fn_ret.fetched <= fn_arg.max_products
    /\ ScrapeCategoryReturned =>
          /\ fn_arg.max_products # None => Len(fn_ret.products) <= fn_arg.max_products
          /\ fn_arg.max_products = None =>
                /\ Len(fn_ret.products) = Len(FoundProducts)
                /\ \A i \in 1..Len(FoundProducts) :
                      fn_ret.products[i].product_url = FoundProducts[i].product_url
          /\ ~fn_arg.enrich_with_details => fn_ret.fetched = 0

\* three products found, a limit of two, enrichment on: two pages fetched,
\* two Products returned
C24_Witness ==
    /\ ScrapeCategoryReturned
    /\ fn_arg.enrich_with_details
    /\ fn_arg.max_products = MaxLimit
    /\ Len(FoundProducts) > MaxLimit
    /\ fn_ret.fetched = MaxLimit
    /\ Len(fn_ret.products) = MaxLimit
    /\ fn_ret.products[1] # FoundProducts[1]

C24_WitnessAll ==
    /\ ScrapeCategoryReturned
    /\ fn_arg.max_products = None
    /\ fn_arg.enrich_with_details
    /\ Len(fn_ret.products) = MaxFound
    /\ fn_ret.fetched = MaxFound
C24_WitnessRaised ==
    fn_pc = "done" /\ fn_name = "scrape_category" /\ fn_ret.exc # "none"

\* ------------------------------------------------------------------ Orchestrator._enrich_category_products

\* the Product appended for one input Product: the detail parser's, or the
\* original when the try block raised
KeptOrEnriched(product, outcome) ==
    IF outcome.exc # "none" THEN product ELSE outcome.product

\* the variant in which a Product whose enrichment raised is left out
DroppedOrEnriched(product, outcome) ==
    IF outcome.exc # "none" THEN <<>> ELSE <<outcome.product>>
RECURSIVE EnrichDroppingFailures(_, _, _)
EnrichDroppingFailures(products, pages, now) ==
    IF products = <<>> THEN <<>>
    ELSE DroppedOrEnriched(Head(products), FetchedOne(Head(products), Head(pages), now))
         \o EnrichDroppingFailures(Tail(products), Tail(pages), now)

\* Orchestrator._enrich_category_products(products), the k-th fetch
\* returning pages[k]: every exception is caught inside the loop, and the
\* Product is appended as it was
RECURSIVE _enrich_category_products(_, _, _)
_enrich_category_products(products, pages, now) ==
    IF products = <<>> THEN <<>>
    ELSE <<KeptOrEnriched(Head(products), FetchedOne(Head(products), Head(pages), now))>>
         \o _enrich_category_products(Tail(products), Tail(pages), now)

\* a page whose JSON author is an object, which the Product rejects
PageInvalid ==
    DetailDoc(<<Script(TRUE, FALSE, Obj(<<KV("price", Null),
                                          KV("author", Obj(<<KV("name", Str(TITLE_FOO))>>))>>))>>,
              <<>>, NoMetas, <<>>)
EnrichPages == FetchedPages \cup {PageInvalid}
EnrichableProducts == {BaselineGatsby, BaselineBare, ProductReviewed}

EnrichCategoryArgs ==
    UNION {{[products |-> ps, pages |-> pg] : pg \in [1..Len(ps) -> EnrichPages]} :
              ps \in SeqsUpTo(EnrichableProducts, MaxFound)}

EnrichCategoryProductsCall ==
    /\ AllIdle
    /\ fn_name' = "_enrich_category_products"
    /\ fn_arg' \in EnrichCategoryArgs
    /\ fn_pc' = "call"
    /\ UNCHANGED <<fn_ret, dedupVars, listingVars, detailVars, rerunVars, orchVars>>

EnrichCategoryProductsRun ==
    /\ fn_pc = "call" /\ fn_name = "_enrich_category_products"
    /\ fn_ret' = _enrich_category_products(fn_arg.products, fn_arg.pages, MaxClock)
    /\ fn_pc' = "done"
    /\ UNCHANGED <<fn_name, fn_arg, dedupVars, listingVars, detailVars, rerunVars, orchVars>>

NextEnrich == EnrichCategoryProductsCall \/ EnrichCategoryProductsRun \/ FieldReturn

SpecEnrich == Init /\ [][NextEnrich]_vars

EnrichCategoryReturned == fn_pc = "done" /\ fn_name = "_enrich_category_products"

\* the detail parser's outcome for product i alone
OutcomeAlone(i) == parse_product_detail(fn_arg.pages[i], fn_arg.products[i], MaxClock)

\* C27: _enrich_category_products returns a list as long as its input;
\* element i is input product i itself when its page was not fetched or the
\* detail parser raised on it, and otherwise the detail parser's Product for
\* product i, with the same product_url, whatever happened to the others.
C27_EnrichKeepsEveryProduct ==
    EnrichCategoryReturned =>
        /\ Len(fn_ret) = Len(fn_arg.products)
        /\ \A i \in 1..Len(fn_arg.products) :
              /\ fn_ret[i].product_url = fn_arg.products[i].product_url
              /\ IF fn_arg.pages[i] = NoPage \/ OutcomeAlone(i).exc # "none"
                 THEN fn_ret[i] = fn_arg.products[i]
                 ELSE fn_ret[i] = OutcomeAlone(i).product

\* three products: the first enriched, the second failing with an
\* exception and kept, the third enriched
C27_Witness ==
    /\ EnrichCategoryReturned
    /\ Len(fn_arg.products) = MaxFound
    /\ fn_arg.pages[1] = PageEnriching /\ fn_ret[1] # fn_arg.products[1]
    /\ fn_arg.pages[2] \in {PageRaising, PageInvalid} /\ fn_ret[2] = fn_arg.products[2]
    /\ fn_arg.pages[MaxFound] = PageEnriching /\ fn_ret[MaxFound] # fn_arg.products[MaxFound]

\* ------------------------------------------------------------------ Orchestrator.run_full_analysis

MAIN_FICTION == <<"F", "i", "c", "t", "i", "o", "n">>
MAIN_VERSE == <<"V", "e", "r", "s", "e">>
SUBCAT_CLASSICS == <<"C", "l", "a", "s", "s", "i", "c", "s">>
SUBCAT_POETRY == <<"P", "o", "e", "t", "r", "y">>
DEFAULT_MAX_PRODUCTS == 50

\* load_kdp_categories: the dict of the file, or {} when the file is missing
\* or is no JSON
NoConfigFile == [k \in {} |-> Null]

\* get_all_kdp_subcategories: the subcategories of the main categories, in
\* the order of the file
SubcatInfos(main_name, subcats) ==
    [i \in 1..Len(subcats) |->
        [main_category |-> main_name, subcategory |-> subcats[i],
         full_path |-> main_name \o <<" ", ">", " ">> \o subcats[i]]]
RECURSIVE FlattenMain(_)
FlattenMain(main_categories) ==
    IF main_categories = <<>> THEN <<>>
    ELSE SubcatInfos(Head(main_categories).category, Head(main_categories).subcategories)
         \o FlattenMain(Tail(main_categories))
get_all_kdp_subcategories(kdp_config) ==
    IF "main_categories" \notin DOMAIN kdp_config THEN <<>>
    ELSE FlattenMain(kdp_config.main_categories)

\* search_strategy.get(key, default) of kdp_config.get('search_strategy', {})
StrategyGet(kdp_config, key, default) ==
    IF "search_strategy" \in DOMAIN kdp_config /\ key \in DOMAIN kdp_config.search_strategy
    THEN kdp_config.search_strategy[key] ELSE default

\* self.max_products or search_strategy.get('max_products_per_category', 50)
MaxProductsOf(self, kdp_config) ==
    IF self.max_products # None THEN self.max_products
    ELSE StrategyGet(kdp_config, "max_products_per_category", DEFAULT_MAX_PRODUCTS)

MaxSkipThreshold == 1
KdpConfigs ==
    {NoConfigFile,
     [search_strategy |-> [skip_if_no_results_threshold |-> 0]],
     [main_categories |-> <<[category |-> MAIN_FICTION, subcategories |-> <<SUBCAT_POETRY>>]>>],
     [main_categories |-> <<[category |-> MAIN_FICTION,
                             subcategories |-> <<SUBCAT_CLASSICS, SUBCAT_CLASSICS>>]>>,
      search_strategy |-> [skip_if_no_results_threshold |-> 0]],
     [main_categories |-> <<[category |-> MAIN_FICTION, subcategories |-> <<SUBCAT_CLASSICS>>],
                            [category |-> MAIN_VERSE, subcategories |-> <<SUBCAT_POETRY>>]>>,
      search_strategy |-> [skip_if_no_results_threshold |-> MaxSkipThreshold]]}

\* what scrape_search returns for a category: nothing, two cards, a much
\* reviewed and a bestselling product
PageTwoCards ==
    ListingDoc(<<>>, <<Card(<<Kid("h2", CLS_TITLE, TITLE_GATSBY), Kid("span", CLS_PRICE, TEXT_AED_4599),
                              LinkKid(PATH_P1)>>),
                       Card(<<Kid("h2", CLS_TITLE, TITLE_FOO), Kid("span", CLS_PRICE, TEXT_AED_4599),
                              LinkKid(PATH_P2)>>)>>)
PageReviewed ==
    ListingDoc(<<Script(TRUE, FALSE,
                        List(<<Obj(<<KV("title", Str(TITLE_FOO)), KV("price", Num(120 * Scale)),
                                     KV("url", Str(PATH_P3)),
                                     KV("reviewCount", Num(250 * Scale))>>)>>))>>, <<>>)
PageBestseller ==
    ListingDoc(<<>>, <<Card(<<Kid("h2", CLS_TITLE, <<"H", "a", "r", "r", "y", " ", "P", "o", "t", "t", "e", "r", " ", "B", "o", "x", " ", "S", "e", "t">>),
                              Kid("span", CLS_PRICE, TEXT_AED_4599), LinkKid(PATH_P1)>>)>>)
OrchestratorPages == {NoPage, PageTwoCards, PageReviewed, PageBestseller}

\* the scrape of one category: what scrape_category returns for the page
\* scrape_search got (without a page an empty list, otherwise the parsed
\* products limited and labelled), or an exception out of the page's parsing
RaisedInScrape == ScrapeOutcome("RecursionError", <<>>, 0)
FoundOnPages == {parse_search_results(html) : html \in OrchestratorPages \ {NoPage}}
CategoryScrapes(subcat, max_products) ==
    {RaisedInScrape, ScrapeOutcome("none", <<>>, 0)}
    \cup {ScrapeListed(products, subcat, max_products) : products \in FoundOnPages}

\* ---- the try block of the loop, for one category

CategoryStep(self, outcome, found, score, fetched) ==
    [self |-> self, outcome |-> outcome, found |-> found, score |-> score, fetched |-> fetched]

\* self.scraped_results[full_path] = products; categories_scraped += 1
StoredScraped(self, full_path, products) ==
    [self EXCEPT !.scraped_results = (full_path :> products) @@ @,
                 !.stats.categories_scraped = @ + 1]

\* self.scraped_results[full_path] = enriched_products; categories_enriched += 1
StoredEnriched(self, full_path, enriched_products) ==
    [self EXCEPT !.scraped_results = (full_path :> enriched_products) @@ @,
                 !.stats.categories_enriched = @ + 1]

\* step 4 and the count of analyzed categories
SavedAnalysis(self, analysis) ==
    IF analysis.recommendation # "skip"
    THEN [self EXCEPT !.opportunities = Append(@, analysis),
                      !.stats.opportunities_found = @ + 1,
                      !.stats.categories_analyzed = @ + 1]
    ELSE [self EXCEPT !.stats.categories_analyzed = @ + 1]

\* the variant that enriches when enrichment is on, whatever the score
WantsEnrichmentAlways(self, analysis) == self.enrich_with_details

\* if self.enrich_with_details and opportunity_score >= self.enrich_threshold
WantsEnrichment(self, analysis) ==
    self.enrich_with_details /\ analysis.opportunity_score >= self.enrich_threshold

\* if enriched_products: re-analyze and store
AfterEnriching(self, full_path, analysis, enriched_products) ==
    IF enriched_products # <<>>
    THEN Only({SavedAnalysis(StoredEnriched(self, full_path, enriched_products), again) :
                  again \in {analyze_category(full_path, enriched_products)}})
    ELSE SavedAnalysis(self, analysis)

AfterAnalysis(self, full_path, products, analysis, pages, now) ==
    IF WantsEnrichment(self, analysis)
    THEN CategoryStep(Only({AfterEnriching(self, full_path, analysis, enriched_products) :
                               enriched_products \in
                                   {_enrich_category_products(products, pages, now)}}),
                      "enriched", Len(products), analysis.opportunity_score, Len(products))
    ELSE CategoryStep(SavedAnalysis(self, analysis), "analyzed", Len(products),
                      analysis.opportunity_score, 0)

\* the quick analysis of the stored products, and what follows from it
Analyzed(self, full_path, products, pages, now) ==
    Only({AfterAnalysis(self, full_path, products, analysis, pages, now) :
             analysis \in {analyze_category(full_path, products)}})

\* the variant that counts the category before it looks at the threshold
AfterScrapeCountingFirst(self, full_path, skip_threshold, products, pages, now) ==
    IF Len(products) <= skip_threshold
    THEN CategoryStep([self EXCEPT !.stats.categories_scraped = @ + 1],
                      "skipped", Len(products), 0, 0)
    ELSE Only({Analyzed(stored, full_path, products, pages, now) :
                  stored \in {StoredScraped(self, full_path, products)}})

\* if len(products) <= skip_threshold: continue
AfterScrape(self, full_path, skip_threshold, products, pages, now) ==
    IF Len(products) <= skip_threshold
    THEN CategoryStep(self, "skipped", Len(products), 0, 0)
    ELSE Only({Analyzed(stored, full_path, products, pages, now) :
                  stored \in {StoredScraped(self, full_path, products)}})

\* the variant in which an exception ends the loop's work on the counters
\* without counting the error
ProcessedUncounted(self, full_path, skip_threshold, scrape, pages, now) ==
    IF scrape.exc # "none" THEN CategoryStep(self, "raised", 0, 0, 0)
    ELSE AfterScrape(self, full_path, skip_threshold, scrape.products, pages, now)

\* the try block and its except clause
ProcessedCategory(self, full_path, skip_threshold, scrape, pages, now) ==
    IF scrape.exc # "none"
    THEN CategoryStep([self EXCEPT !.stats.errors = @ + 1], "raised", 0, 0, 0)
    ELSE AfterScrape(self, full_path, skip_threshold, scrape.products, pages, now)

\* self.opportunities.sort(key=score, reverse=True): stable, the higher score first
RECURSIVE InsertByScore(_, _)
InsertByScore(sorted, analysis) ==
    IF sorted = <<>> THEN <<analysis>>
    ELSE IF Head(sorted).opportunity_score >= analysis.opportunity_score
         THEN <<Head(sorted)>> \o InsertByScore(Tail(sorted), analysis)
         ELSE <<analysis>> \o sorted
RECURSIVE SortedByScore(_)
SortedByScore(opportunities) ==
    IF opportunities = <<>> THEN <<>>
    ELSE InsertByScore(SortedByScore(SubSeq(opportunities, 1, Len(opportunities) - 1)),
                       opportunities[Len(opportunities)])

\* GapAnalyzer.generate_report(opportunities)
HighOpportunities(opportunities) ==
    SelectSeq(opportunities, LAMBDA o : o.opportunity_score >= 70 * Scale)
ModerateOpportunities(opportunities) ==
    SelectSeq(opportunities,
              LAMBDA o : 50 * Scale <= o.opportunity_score /\ o.opportunity_score < 70 * Scale)
LowOpportunities(opportunities) ==
    SelectSeq(opportunities, LAMBDA o : o.opportunity_score < 50 * Scale)
generate_report(opportunities) ==
    [summary |-> [total_opportunities |-> Len(opportunities),
                  high_opportunities |-> Len(HighOpportunities(opportunities)),
                  moderate_opportunities |-> Len(ModerateOpportunities(opportunities)),
                  low_opportunities |-> Len(LowOpportunities(opportunities))],
     top_opportunities |-> Limited(HighOpportunities(opportunities), 20),
     moderate_opportunities |-> Limited(ModerateOpportunities(opportunities), 10),
     all_opportunities |-> opportunities]

\* what the rest of the iteration can do to the Orchestrator, over what the
\* fetches of the detail pages return
CategorySteps(self, config, subcat_info, scrape) ==
    {ProcessedCategory(self, subcat_info.full_path, config.skip_threshold, scrape,
                       [k \in 1..MaxFound |-> page], MaxClock) : page \in FetchedPages}

\* ---- the actions

MaxRuns == 2
EnrichThresholds == {DEFAULT_ENRICH_THRESHOLD * Scale, 80 * Scale}

\* Orchestrator(enrich_threshold=..., enrich_with_details=...): a new object
\* in place of the old one
OrchestratorInit ==
    /\ AllIdle
    /\ \E t \in EnrichThresholds, e \in BOOLEAN : or_self' = Orchestrator(t, None, e)
    /\ or_runs' = 0
    /\ UNCHANGED <<or_config, or_i, or_scrape, or_last, or_log, or_result, or_pc,
                   dedupVars, listingVars, detailVars, fieldVars, rerunVars>>

\* run_full_analysis up to the loop: the configuration is loaded; without
\* one the call returns an error
RunFullAnalysisCall ==
    /\ AllIdle
    /\ or_runs < MaxRuns
    /\ \E kdp_config \in KdpConfigs :
          IF DOMAIN kdp_config = {}
          THEN /\ or_result' = [error |-> "Failed to load KDP categories"]
               /\ or_pc' = "done"
               /\ UNCHANGED <<or_config, or_i>>
          ELSE /\ or_config' =
                     [subcategories |-> get_all_kdp_subcategories(kdp_config),
                      skip_threshold |-> StrategyGet(kdp_config, "skip_if_no_results_threshold", 0),
                      max_products |-> MaxProductsOf(or_self, kdp_config)]
               /\ or_i' = 1
               /\ or_pc' = "loop"
               /\ UNCHANGED or_result
    /\ UNCHANGED <<or_self, or_scrape, or_last, or_log, or_runs,
                   dedupVars, listingVars, detailVars, fieldVars, rerunVars>>

\* the first statement of the try block: scrape_category for the category
\* at hand returns its products or raises
ScrapeNextCategory ==
    /\ or_pc = "loop"
    /\ or_i <= Len(or_config.subcategories)
    /\ or_scrape' \in CategoryScrapes(or_config.subcategories[or_i].subcategory,
                                      or_config.max_products)
    /\ or_pc' = "scraped"
    /\ UNCHANGED <<or_self, or_config, or_i, or_last, or_log, or_result, or_runs,
                   dedupVars, listingVars, detailVars, fieldVars, rerunVars>>

\* the rest of the iteration: unless the category is skipped or the scrape
\* raised, it is analyzed, enriched when the score calls for it, and saved
ProcessCategory ==
    /\ or_pc = "scraped"
    /\ \E step \in CategorySteps(or_self, or_config, or_config.subcategories[or_i], or_scrape) :
          /\ or_self' = step.self
          /\ or_last' = [step EXCEPT !.self = or_self]
    /\ or_log' = Append(or_log, or_config.subcategories[or_i].full_path)
    /\ or_i' = or_i + 1
    /\ or_scrape' = Null
    /\ or_pc' = "loop"
    /\ UNCHANGED <<or_config, or_result, or_runs,
                   dedupVars, listingVars, detailVars, fieldVars, rerunVars>>

\* after the loop: the opportunities are sorted, the report is generated and
\* the result dict is built
RunFullAnalysisReport ==
    /\ or_pc = "loop"
    /\ or_i > Len(or_config.subcategories)
    /\ or_self' = [or_self EXCEPT !.opportunities = SortedByScore(@)]
    /\ or_result' = [opportunities |-> or_self'.opportunities,
                     scraped_results |-> or_self'.scraped_results,
                     stats |-> or_self'.stats,
                     report |-> generate_report(or_self'.opportunities)]
    /\ or_pc' = "done"
    /\ UNCHANGED <<or_config, or_i, or_scrape, or_last, or_log, or_runs,
                   dedupVars, listingVars, detailVars, fieldVars, rerunVars>>

\* the caller has the result; the Orchestrator stays
RunFullAnalysisReturn ==
    /\ or_pc = "done"
    /\ or_config' = NoConfig
    /\ or_i' = 0
    /\ or_last' = NoCategory
    /\ or_log' = <<>>
    /\ or_result' = Null
    /\ or_runs' = or_runs + 1
    /\ or_pc' = "idle"
    /\ UNCHANGED <<or_self, or_scrape, dedupVars, listingVars, detailVars, fieldVars, rerunVars>>

NextOrchestrator ==
    \/ OrchestratorInit
    \/ RunFullAnalysisCall
    \/ ScrapeNextCategory
    \/ ProcessCategory
    \/ RunFullAnalysisReport
    \/ RunFullAnalysisReturn

SpecOrchestrator == Init /\ [][NextOrchestrator]_vars

\* ---- claims about the Orchestrator

\* the loop has finished an iteration whose record or_last holds
AfterIteration == or_pc \in {"loop", "done"} /\ or_last.outcome # "none"
StatsBefore == or_last.self.stats

\* C23: a category's products are sent to detail-page enrichment only if
\* enrich_with_details is true and the quick-analysis score reaches
\* enrich_threshold; below the threshold no detail page is fetched and
\* categories_enriched is not incremented.
C23_EnrichOnlyAboveThreshold ==
    AfterIteration =>
        /\ (or_last.fetched > 0
              \/ or_self.stats.categories_enriched # StatsBefore.categories_enriched) =>
              /\ or_last.self.enrich_with_details
              /\ or_last.outcome = "enriched"
              /\ or_last.score >= or_last.self.enrich_threshold
        /\ (or_last.outcome \in {"analyzed", "enriched"}
              /\ or_last.score < or_last.self.enrich_threshold) =>
              /\ or_last.fetched = 0
              /\ or_self.stats.categories_enriched = StatsBefore.categories_enriched

\* enrichment is on, the score is 72 and the threshold 80: nothing is fetched
C23_Witness ==
    /\ AfterIteration
    /\ or_last.self.enrich_with_details
    /\ or_last.outcome = "analyzed"
    /\ or_last.score >= DEFAULT_ENRICH_THRESHOLD * Scale
    /\ or_last.score < or_last.self.enrich_threshold
    /\ or_last.fetched = 0

C23_WitnessEnriched ==
    /\ AfterIteration
    /\ or_last.outcome = "enriched"
    /\ or_last.fetched > 0
    /\ or_self.stats.categories_enriched = StatsBefore.categories_enriched + 1

PathsOf(subcategories) == [i \in 1..Len(subcategories) |-> subcategories[i].full_path]
SortedDescending(opportunities) ==
    \A i, j \in 1..Len(opportunities) :
        i < j => opportunities[i].opportunity_score >= opportunities[j].opportunity_score
RunCompleted == or_pc = "done" /\ "error" \notin DOMAIN or_result

\* C26: the loop takes up every configured subcategory exactly once, in
\* configuration order; an iteration in which an exception is raised adds
\* exactly one to stats['errors'] (any other adds none) and the loop goes on;
\* after the last category the opportunities are sorted by score, descending,
\* and the report is generated from them.
C26_EveryCategoryOnce ==
    /\ or_pc = "loop" =>
          /\ or_i \in 1..(Len(or_config.subcategories) + 1)
          /\ or_log = SubSeq(PathsOf(or_config.subcategories), 1, or_i - 1)
    /\ AfterIteration =>
          or_self.stats.errors =
              StatsBefore.errors + (IF or_last.outcome = "raised" THEN 1 ELSE 0)
    /\ RunCompleted =>
          /\ or_log = PathsOf(or_config.subcategories)
          /\ SortedDescending(or_self.opportunities)
          /\ or_result.opportunities = or_self.opportunities
          /\ or_result.report.all_opportunities = or_self.opportunities
          /\ or_result.report.summary.total_opportunities = Len(or_self.opportunities)

\* a first run over two categories: the first raised, the second was
\* analyzed and is an opportunity, and the run completed
C26_Witness ==
    /\ RunCompleted
    /\ or_runs = 0
    /\ Len(or_log) = 2
    /\ or_self.stats.errors = 1
    /\ or_last.outcome \in {"analyzed", "enriched"}
    /\ or_self.stats.opportunities_found = 1

C26_WitnessSorted ==
    /\ RunCompleted
    /\ Len(or_self.opportunities) >= 2
    /\ or_self.opportunities[1].opportunity_score > or_self.opportunities[2].opportunity_score
    /\ or_last.outcome = "analyzed"
    /\ or_last.score = or_self.opportunities[1].opportunity_score

\* C28: a category whose scrape yields no more products than
\* skip_if_no_results_threshold changes nothing: scraped_results,
\* opportunities and every counter are as before, and no detail page is
\* fetched.
C28_SkippedChangesNothing ==
    (or_pc = "loop" /\ or_last.outcome \notin {"none", "raised"}
       /\ or_last.found <= or_config.skip_threshold) =>
        /\ or_self = or_last.self
        /\ or_last.fetched = 0

\* one product found under a threshold of 1, by an Orchestrator that has
\* results already
C28_Witness ==
    /\ or_pc = "loop"
    /\ or_last.outcome = "skipped"
    /\ or_last.found = MaxSkipThreshold
    /\ or_config.skip_threshold = MaxSkipThreshold
    /\ or_self.stats.categories_scraped > 0

\* C29: at every loop boundary and at the end, also across repeated runs,
\* opportunities_found is the length of opportunities, opportunities_found <=
\* categories_analyzed <= categories_scraped, categories_enriched <=
\* categories_scraped, and categories_scraped is the number of entries of
\* scraped_results.
C29_CounterInvariants ==
    /\ or_self.stats.opportunities_found = Len(or_self.opportunities)
    /\ or_self.stats.opportunities_found <= or_self.stats.categories_analyzed
    /\ or_self.stats.categories_analyzed <= or_self.stats.categories_scraped
    /\ or_self.stats.categories_enriched <= or_self.stats.categories_scraped
    /\ or_self.stats.categories_scraped = Cardinality(DOMAIN or_self.scraped_results)

====
